---- MODULE Spec2Model ----
(***************************************************************************)
(* Layout and spatial-navigation engine of chshtui (src/src/view.rs) with  *)
(* the element groups of src/src/els.rs.                                   *)
(*                                                                         *)
(* A Layout is a sequence of Columns, a Column a sequence of elements.     *)
(* Elements are Simple (fixed Length dimensions) or one of the groups      *)
(* SkillsEl, RollHistory (vertical) and Dice (horizontal).  The selection  *)
(* (ElPos) is owned by the scene and moved with Layout::navigate.          *)
(***************************************************************************)
EXTENDS Integers, Sequences, FiniteSets, TLC

VARIABLES
    columns,    \* Layout.columns: Seq of Seq of elements
    built,      \* construction finished (the layout is owned by a scene)
    state,      \* the SheetState fields the elements read: skills, rolls
    area,       \* the Rect the layout was last rendered into
    pos,        \* the scene's selection, an ElPos
    last,       \* the last navigate call: its direction and input position
    panicked,   \* an arithmetic overflow panicked (debug build)
    mode,       \* Layout.mode: FullScreen or Modal
    out,        \* the call in progress on the event path and what it returned
    roll_scene, \* the RollScene of roll.rs: input, results, backlog
    editor,     \* an IntEditorModal, its EditorState cell and the sheet
    app,        \* the App of main.rs: scene stack, help overlay
    book        \* the SpellBook, its lock and the background loader

\* The layout with its scene, and the components beside it.
layoutVars == <<columns, built, state, area, pos, last, mode>>
others == <<roll_scene, editor, app, book>>

vars == <<columns, built, state, area, pos, last, panicked, mode, out,
          roll_scene, editor, app, book>>

\* A component that the behaviours of a specification do not construct.
NotConstructed == [constructed |-> FALSE]
OthersNotConstructed ==
    /\ roll_scene = NotConstructed
    /\ editor = NotConstructed
    /\ app = NotConstructed
    /\ book = NotConstructed

-----------------------------------------------------------------------------
(* Bounds of the model.                                                    *)

MaxCols == 2
MaxEls == 2
MaxSkills == 2
MaxRolls == 1
MaxMagnitude == 2
MaxSide == 4

\* usize arithmetic wraps at 2^64; the model wraps at 2^30, which keeps the
\* sums below the largest integer TLC holds and is far above any row count.
USIZE == 1073741824

(* Program constants.                                                      *)

BORDER == 2
DiceLen == 6
SkillNameLen == 8
U16 == 65536
TableMaxRolls == 10
TableRolls == 7

-----------------------------------------------------------------------------
(* Small helpers.                                                          *)

Min2(a, b) == IF a < b THEN a ELSE b
Max2(a, b) == IF a > b THEN a ELSE b
SatSub(a, b) == IF a > b THEN a - b ELSE 0

RECURSIVE SumSeq(_)
SumSeq(s) == IF s = <<>> THEN 0 ELSE Head(s) + SumSeq(Tail(s))

Rect(x, y, w, h) == [x |-> x, y |-> y, width |-> w, height |-> h]

\* ratatui Rect::contains(Position)
Contains(r, px, py) ==
    /\ px >= r.x /\ px < r.x + r.width
    /\ py >= r.y /\ py < r.y + r.height

Length(n) == [k |-> "Length", n |-> n]
MinC(n) == [k |-> "Min", n |-> n]
Fill(n) == [k |-> "Fill", n |-> n]
MaxC(n) == [k |-> "Max", n |-> n]
Percentage(n) == [k |-> "Percentage", n |-> n]
Ratio(n, d) == [k |-> "Ratio", n |-> n, d |-> d]

\* std::cmp::Ordering of two integers (Ord::cmp)
Cmp(x, y) == IF x < y THEN "Less" ELSE IF x = y THEN "Equal" ELSE "Greater"

\* the magnitudes alone decide, whatever the kinds
compare_constraints_by_magnitude(a, b) == Cmp(a.n, b.n)

\* compare_constraints: the arms of the match in their order; two Ratios
\* compare by their quotients (denominators above 0, so that a1/a2 against
\* b1/b2 is a1*b2 against b1*a2)
compare_constraints(a, b) ==
    IF a.k = b.k
    THEN IF a.k = "Ratio" THEN Cmp(a.n * b.d, b.n * a.d) ELSE Cmp(a.n, b.n)
    ELSE IF a.k = "Max" THEN "Greater"
    ELSE IF b.k = "Max" THEN "Less"
    ELSE IF a.k = "Length" THEN "Greater"
    ELSE IF b.k = "Length" THEN "Less"
    ELSE IF a.k = "Min" THEN "Greater"
    ELSE IF b.k = "Min" THEN "Less"
    ELSE IF a.k = "Percentage" THEN "Greater"
    ELSE IF b.k = "Percentage" THEN "Less"
    ELSE IF a.k = "Ratio" THEN "Greater"
    ELSE "Less"

(***************************************************************************)
(* ratatui's Layout::split along one axis for the constraint kinds the     *)
(* elements use: a Length segment gets its length, and so does a Max      *)
(* segment (its size is held to its maximum before any Fill grows), Fill   *)
(* and Min segments share what is left in proportion to their weight (Min  *)
(* weighs 1 and gets at least its minimum), segments are laid out from the *)
(* start and are cut at the end of the area.  Returns the sequence of      *)
(* <<offset, size>>.                                                       *)
(***************************************************************************)
Grows(c) == c.k \in {"Fill", "Min"}
Fixed(c) == c.k \in {"Length", "Max"}

\* Sum of the Length and Max segments.
RECURSIVE FixedSum(_)
FixedSum(cs) ==
    IF cs = <<>> THEN 0
    ELSE (IF Fixed(Head(cs)) THEN Head(cs).n ELSE 0) + FixedSum(Tail(cs))

\* Sum of the Fill weights, a Min weighing 1.
RECURSIVE WeightSum(_)
WeightSum(cs) ==
    IF cs = <<>> THEN 0
    ELSE (IF Head(cs).k = "Fill" THEN Head(cs).n
          ELSE IF Head(cs).k = "Min" THEN 1 ELSE 0) + WeightSum(Tail(cs))

RECURSIVE GrowCount(_)
GrowCount(cs) ==
    IF cs = <<>> THEN 0
    ELSE (IF Grows(Head(cs)) THEN 1 ELSE 0) + GrowCount(Tail(cs))

\* Weight of one segment; when every weight is 0 the growing segments
\* share alike.
Weight(c, allZero) ==
    IF ~Grows(c) THEN 0
    ELSE IF allZero THEN 1
    ELSE IF c.k = "Fill" THEN c.n ELSE 1

\* A Min segment whose share would be below its minimum gets its minimum.
Pinned(c, rem0, W1, allZero) ==
    c.k = "Min" /\ W1 > 0 /\ c.n * W1 > rem0 * Weight(c, allZero)

RECURSIVE PinnedSum(_, _, _, _)
PinnedSum(cs, rem0, W1, allZero) ==
    IF cs = <<>> THEN 0
    ELSE (IF Pinned(Head(cs), rem0, W1, allZero) THEN Head(cs).n ELSE 0)
         + PinnedSum(Tail(cs), rem0, W1, allZero)

RECURSIVE PinnedWeight(_, _, _, _)
PinnedWeight(cs, rem0, W1, allZero) ==
    IF cs = <<>> THEN 0
    ELSE (IF Pinned(Head(cs), rem0, W1, allZero)
          THEN Weight(Head(cs), allZero) ELSE 0)
         + PinnedWeight(Tail(cs), rem0, W1, allZero)

\* Lay the segments out from offset off (relative to the area), cut at total.
RECURSIVE Place(_, _, _, _, _, _, _, _, _, _)
Place(cs, from, total, off, cumw, rem, W, rem0, W1, allZero) ==
    IF cs = <<>> THEN <<>>
    ELSE LET c == Head(cs)
             fixed == Fixed(c) \/ Pinned(c, rem0, W1, allZero)
             wt == IF fixed THEN 0 ELSE Weight(c, allZero)
             raw == IF fixed THEN c.n
                    ELSE IF W = 0 THEN 0
                    ELSE ((rem * (cumw + wt)) \div W) - ((rem * cumw) \div W)
             size == Min2(raw, total - off)
         IN  <<(<<from + off, size>>)>>
             \o Place(Tail(cs), from, total, Min2(off + raw, total), cumw + wt,
                      rem, W, rem0, W1, allZero)

Split(from, total, cs) ==
    LET rem0 == SatSub(total, FixedSum(cs))
        w0 == WeightSum(cs)
        allZero == w0 = 0
        W1 == IF allZero THEN GrowCount(cs) ELSE w0
        rem == SatSub(rem0, PinnedSum(cs, rem0, W1, allZero))
        W == W1 - PinnedWeight(cs, rem0, W1, allZero)
    IN  Place(cs, from, total, 0, 0, rem, W, rem0, W1, allZero)

\* Layout::new(Direction::Vertical, cs).split(area)
SplitV(r, cs) ==
    LET s == Split(r.y, r.height, cs)
    IN  [i \in 1..Len(cs) |-> Rect(r.x, s[i][1], r.width, s[i][2])]

\* Layout::new(Direction::Horizontal, cs).split(area)
SplitH(r, cs) ==
    LET s == Split(r.x, r.width, cs)
    IN  [i \in 1..Len(cs) |-> Rect(s[i][1], r.y, s[i][2], r.height)]

\* the top-left corner in place of the centre
centre_of_corner(r) == <<r.x, r.y>>

\* centre_of
centre_of(r) == <<r.x + (r.width \div 2), r.y + (r.height \div 2)>>

-----------------------------------------------------------------------------
(* Elements: El::Simple (a fixed-size element such as TestEl::fixed, or a  *)
(* StatEl) and El::Group (SkillsEl, RollHistory, Dice).                    *)

Simple(w, h) == [kind |-> "Simple", w |-> w, h |-> h, max |-> 0]
StatEl == [kind |-> "StatEl", w |-> 4, h |-> 4, max |-> 0]
TestEl(width, height) == [kind |-> "TestEl", w |-> width, h |-> height, max |-> 0]
SkillsEl == [kind |-> "SkillsEl", w |-> 0, h |-> 0, max |-> 0]
RollHistory(m) == [kind |-> "RollHistory", w |-> 0, h |-> 0, max |-> m]
Dice == [kind |-> "Dice", w |-> 0, h |-> 0, max |-> 0]

IsGroup(el) == el.kind \notin {"Simple", "StatEl", "TestEl"}

\* ElGroup::direction
direction(el) == IF el.kind = "Dice" THEN "Horizontal" ELSE "Vertical"

IsHorizontalGroup(el) == IsGroup(el) /\ direction(el) = "Horizontal"
IsVerticalGroup(el) == IsGroup(el) /\ direction(el) = "Vertical"

\* ElGroup::child_count
child_count(el, st) ==
    CASE el.kind = "SkillsEl" -> st.skills
      [] el.kind = "RollHistory" -> Min2(st.rolls, el.max)
      [] el.kind = "Dice" -> DiceLen + 1
      [] OTHER -> 1

\* El::dimensions, the width constraint
dimensions_x(el, st) ==
    CASE el.kind = "Simple" -> Length(el.w)
      [] el.kind = "StatEl" -> MinC(el.w)
      [] el.kind = "TestEl" -> el.w
      [] el.kind = "SkillsEl" ->
            MinC((IF st.skills = 0 THEN 0 ELSE SkillNameLen) + 1 + 4 + BORDER)
      [] el.kind = "RollHistory" -> Fill(1)
      [] OTHER -> MinC(4 * DiceLen + BORDER)

\* El::dimensions, the height constraint
dimensions_y(el, st) ==
    CASE el.kind = "Simple" -> Length(el.h)
      [] el.kind = "StatEl" -> Length(el.h)
      [] el.kind = "TestEl" -> el.h
      [] el.kind = "SkillsEl" -> Length(st.skills + BORDER)
      [] el.kind = "RollHistory" -> Length(Min2(st.rolls, el.max) + 1 + BORDER)
      [] OTHER -> Length(BORDER + 1)

\* El::row_count
El_row_count(el, st) ==
    IF IsGroup(el)
    THEN IF direction(el) = "Vertical" THEN child_count(el, st) ELSE 1
    ELSE 1

\* Dice::iter_layout: the areas of the dice buttons
Dice_iter_layout(r) == SplitH(r, [i \in 1..(DiceLen + 1) |-> Fill(1)])

\* SkillsEl::child_pos
SkillsEl_child_pos(r, st, selected) ==
    <<r.x + (r.width \div 2), r.y + selected + (BORDER \div 2)>>

\* SkillsEl::child_at_pos
SkillsEl_child_at_pos(r, st, x, y) ==
    LET y_offset == y - r.y
        table_index == y_offset + 1
    IN  Min2(table_index, SatSub(st.skills, 1))

\* RollHistory::child_pos
RollHistory_child_pos(r, st, selected) ==
    <<r.x + (r.width \div 2), r.y + 1 + (BORDER \div 2) + selected>>

\* RollHistory::child_at_pos
RollHistory_child_at_pos(el, r, st, x, y) ==
    LET y_offset == SatSub(y, r.y + 1 + (BORDER \div 2))
    IN  Min2(y_offset, Min2(st.rolls, el.max))

\* Dice::child_pos
Dice_child_pos(r, st, selected) ==
    IF selected < DiceLen + 1
    THEN centre_of(Dice_iter_layout(r)[selected + 1])
    ELSE centre_of(r)

\* Dice::child_at_pos
Dice_child_at_pos(r, st, x, y) ==
    LET areas == Dice_iter_layout(r)
        hits == {i \in 1..Len(areas) : Contains(areas[i], x, y)}
    IN  IF hits = {} THEN 0
        ELSE (CHOOSE i \in hits : \A j \in hits : i <= j) - 1

\* ElGroup::child_pos, dispatched on the implementation
child_pos(el, r, st, selected) ==
    CASE el.kind = "SkillsEl" -> SkillsEl_child_pos(r, st, selected)
      [] el.kind = "RollHistory" -> RollHistory_child_pos(r, st, selected)
      [] OTHER -> Dice_child_pos(r, st, selected)

\* ElGroup::child_at_pos, dispatched on the implementation
child_at_pos(el, r, st, x, y) ==
    CASE el.kind = "SkillsEl" -> SkillsEl_child_at_pos(r, st, x, y)
      [] el.kind = "RollHistory" -> RollHistory_child_at_pos(el, r, st, x, y)
      [] OTHER -> Dice_child_at_pos(r, st, x, y)

-----------------------------------------------------------------------------
(* Column.                                                                 *)

ColPos(row, row_col) == [row |-> row, row_col |-> row_col]
ElPos(col, row, row_col) == [col |-> col, row |-> row, row_col |-> row_col]
PosOf(p) == ColPos(p.row, p.row_col)

\* Iterator::max_by(compare_constraints): the later of two equal maxima
\* is kept.  Column::width: Fill(0) when the column is empty.
RECURSIVE MaxBy(_, _)
MaxBy(cs, best) ==
    IF cs = <<>> THEN best
    ELSE MaxBy(Tail(cs),
               IF compare_constraints(best, Head(cs)) = "Greater"
               THEN best ELSE Head(cs))

Column_width(column, st) ==
    IF column = <<>> THEN Fill(0)
    ELSE LET cs == [i \in 1..Len(column) |-> dimensions_x(column[i], st)]
         IN  MaxBy(Tail(cs), Head(cs))

\* Column::iter_layout: the areas of the column's elements
Column_iter_layout(column, st, r) ==
    SplitV(r, [i \in 1..Len(column) |-> dimensions_y(column[i], st)])

\* Column::row_count
Column_row_count(column, st) ==
    SumSeq([i \in 1..Len(column) |-> El_row_count(column[i], st)])

\* Rows contributed by the elements before element i
RowsBefore(column, st, i) ==
    SumSeq([j \in 1..(i - 1) |-> El_row_count(column[j], st)])

\* Column::get_element: the index of the first element whose rows hold
\* cp.row (0 when there is none) and the child index passed to it
NoElement == [some |-> FALSE, idx |-> 0, child_index |-> 0]

get_element(column, cp, st) ==
    LET hit == {i \in 1..Len(column) :
                    /\ RowsBefore(column, st, i) <= cp.row
                    /\ cp.row < RowsBefore(column, st, i) + El_row_count(column[i], st)}
    IN  IF hit = {} THEN NoElement
        ELSE LET i == CHOOSE i \in hit : TRUE
                 row == cp.row - RowsBefore(column, st, i)
             IN  [some |-> TRUE, idx |-> i,
                  child_index |->
                      IF ~IsGroup(column[i]) THEN 0
                      ELSE IF direction(column[i]) = "Vertical" THEN row
                      ELSE cp.row_col]

\* clamping the row to row_count in place of row_count - 1
Column_clamp_selected_past_end(column, selected, st) ==
    LET row == Min2(selected.row, Column_row_count(column, st))
        p == ColPos(row, selected.row_col)
        got == get_element(column, p, st)
    IN  IF got.some
        THEN IF IsHorizontalGroup(column[got.idx])
             THEN ColPos(row, Min2(selected.row_col,
                                   SatSub(child_count(column[got.idx], st), 1)))
             ELSE ColPos(row, 0)
        ELSE p

\* keeping row_col on an element that is no horizontal group
Column_clamp_selected_keep_row_col(column, selected, st) ==
    LET row == Min2(selected.row, SatSub(Column_row_count(column, st), 1))
        p == ColPos(row, selected.row_col)
        got == get_element(column, p, st)
    IN  IF got.some /\ IsHorizontalGroup(column[got.idx])
        THEN ColPos(row, Min2(selected.row_col,
                              SatSub(child_count(column[got.idx], st), 1)))
        ELSE p

\* Column::clamp_selected
Column_clamp_selected(column, selected, st) ==
    LET row == Min2(selected.row, SatSub(Column_row_count(column, st), 1))
        p == ColPos(row, selected.row_col)
        got == get_element(column, p, st)
    IN  IF got.some
        THEN IF IsHorizontalGroup(column[got.idx])
             THEN ColPos(row, Min2(selected.row_col,
                                   SatSub(child_count(column[got.idx], st), 1)))
             ELSE ColPos(row, 0)
        ELSE p

\* Column::child_pos
Column_child_pos(column, r, st, cp) ==
    LET got == get_element(column, cp, st)
    IN  IF ~got.some THEN <<0, 0>>
        ELSE LET el == column[got.idx]
                 el_area == Column_iter_layout(column, st, r)[got.idx]
             IN  IF ~IsGroup(el) THEN centre_of(el_area)
                 ELSE child_pos(el, el_area, st, got.child_index)

\* Column::child_at_coordinate
Column_child_at_coordinate(column, r, st, x, y) ==
    LET areas == Column_iter_layout(column, st, r)
        hit == {i \in 1..Len(column) : Contains(areas[i], areas[i].x, y)}
    IN  IF hit = {} THEN ColPos(Column_row_count(column, st), 0)
        ELSE LET i == CHOOSE i \in hit : \A j \in hit : i <= j
                 row == RowsBefore(column, st, i)
                 el == column[i]
             IN  IF ~IsGroup(el) THEN ColPos(row, 0)
                 ELSE IF direction(el) = "Vertical"
                 THEN ColPos(row + child_at_pos(el, areas[i], st, x, y), 0)
                 ELSE ColPos(row, child_at_pos(el, areas[i], st, x, y))

-----------------------------------------------------------------------------
(* Layout.                                                                 *)

Default == ElPos(0, 0, 0)
Navigation == {"Up", "Down", "Left", "Right"}

\* Layout::iter_layout: the areas of the columns
Layout_iter_layout(cols, st, r) ==
    SplitH(r, [i \in 1..Len(cols) |-> Column_width(cols[i], st)])

\* Layout::clamp_selected
Layout_clamp_selected(cols, selected, st) ==
    LET col == Min2(selected.col, SatSub(Len(cols), 1))
        cp == IF col < Len(cols)
              THEN Column_clamp_selected(cols[col + 1], PosOf(selected), st)
              ELSE ColPos(0, 0)
    IN  ElPos(col, cp.row, cp.row_col)

\* Layout::up
up(cols, from, st) ==
    Layout_clamp_selected(cols, [from EXCEPT !.row = SatSub(from.row, 1)], st)

\* moving down without the clamp
down_unclamped(cols, from, st) == [from EXCEPT !.row = from.row + 1]

\* Layout::down
down(cols, from, st) ==
    Layout_clamp_selected(cols, [from EXCEPT !.row = from.row + 1], st)

\* y of the selected child in the current column (left and right);
\* layout holds the areas of the columns
CurrentY(cols, from, st, layout) ==
    IF from.col < Len(cols)
    THEN Column_child_pos(cols[from.col + 1], layout[from.col + 1],
                          st, PosOf(from))[2]
    ELSE 0

\* Layout::left computes new_area.x + new_area.width - 1 in u16
LeftUnderflows(cols, from, st, r) ==
    /\ from.row_col = 0
    /\ SatSub(from.col, 1) < Len(cols)
    /\ LET new_area == Layout_iter_layout(cols, st, r)[SatSub(from.col, 1) + 1]
       IN  new_area.x + new_area.width = 0

\* Layout::left, the move into the column on the left
LeftCrossing(cols, from, st, r) ==
    LET layout == Layout_iter_layout(cols, st, r)
        y == CurrentY(cols, from, st, layout)
        col == SatSub(from.col, 1)
        cp == IF col < Len(cols)
              THEN LET new_area == layout[col + 1]
                       x == (new_area.x + new_area.width - 1) % U16
                   IN  Column_child_at_coordinate(cols[col + 1], new_area, st, x, y)
              ELSE ColPos(0, 0)
    IN  Layout_clamp_selected(cols, ElPos(col, cp.row, cp.row_col), st)

\* leaving the column whatever row_col is
left_always_crossing(cols, from, st, r) == LeftCrossing(cols, from, st, r)

\* Layout::left
left(cols, from, st, r) ==
    IF from.row_col > 0
    THEN Layout_clamp_selected(cols, [from EXCEPT !.row_col = from.row_col - 1], st)
    ELSE LeftCrossing(cols, from, st, r)

\* the early return taken on the last child as well
RightWithinGroup_off_by_one(cols, from, st) ==
    /\ from.col < Len(cols)
    /\ LET got == get_element(cols[from.col + 1], PosOf(from), st)
       IN  /\ got.some
           /\ IsHorizontalGroup(cols[from.col + 1][got.idx])
           /\ from.row_col < child_count(cols[from.col + 1][got.idx], st)

\* Layout::right, the early return inside a horizontal group
RightWithinGroup(cols, from, st) ==
    /\ from.col < Len(cols)
    /\ LET got == get_element(cols[from.col + 1], PosOf(from), st)
       IN  /\ got.some
           /\ IsHorizontalGroup(cols[from.col + 1][got.idx])
           /\ from.row_col + 1 < child_count(cols[from.col + 1][got.idx], st)

\* Layout::right
right(cols, from, st, r) ==
    IF RightWithinGroup(cols, from, st)
    THEN [from EXCEPT !.row_col = from.row_col + 1]
    ELSE IF from.col + 1 < Len(cols)
    THEN LET layout == Layout_iter_layout(cols, st, r)
             y == CurrentY(cols, from, st, layout)
             col == from.col + 1
             new_area == layout[col + 1]
             cp == Column_child_at_coordinate(cols[col + 1], new_area, st,
                                              new_area.x, y)
         IN  Layout_clamp_selected(cols, ElPos(col, cp.row, cp.row_col), st)
    ELSE Layout_clamp_selected(cols, from, st)

\* Layout::navigate
navigate(cols, r, st, current, nav) ==
    CASE nav = "Up" -> up(cols, current, st)
      [] nav = "Down" -> down(cols, current, st)
      [] nav = "Left" -> left(cols, current, st, r)
      [] OTHER -> right(cols, current, st, r)

-----------------------------------------------------------------------------
(* Events and their dispatch: Layout::handle, Column::handle and the       *)
(* handlers of the elements.                                               *)

\* crossterm events, as far as the handlers tell them apart
Key(kind, code) == [type |-> "Key", kind |-> kind, code |-> code]
Resize == [type |-> "Resize", kind |-> "None", code |-> "None"]
Events ==
    {Key("Press", "Enter"), Key("Press", "r"), Key("Press", "x"),
     Key("Release", "Enter"), Resize}
IsPress(event) == event.type = "Key" /\ event.kind = "Press"

\* HandleResult; Open carries the scene it opens and what it was built from
Close == [tag |-> "Close", scene |-> "None", arg |-> 0]
Consume == [tag |-> "Consume", scene |-> "None", arg |-> 0]
HandleDefault == [tag |-> "Default", scene |-> "None", arg |-> 0]
Open(scene, arg) == [tag |-> "Open", scene |-> scene, arg |-> arg]

\* Dice::DICE
DICE == <<4, 6, 8, 10, 12, 20>>

\* ElSimp::handle_select (StatEl overrides the default)
ElSimp_handle_select(el, st) ==
    IF el.kind = "StatEl" THEN Open("stat_modal", 0) ELSE HandleDefault

\* ElSimp::handle_roll (StatEl overrides the default)
ElSimp_handle_roll(el, st) ==
    IF el.kind = "StatEl" THEN Open("RollModal", 20) ELSE HandleDefault

\* ElSimp::handle_key_press
ElSimp_handle_key_press(el, code, st) ==
    CASE code = "Enter" -> ElSimp_handle_select(el, st)
      [] code = "r" -> ElSimp_handle_roll(el, st)
      [] OTHER -> HandleDefault

\* ElSimp::handle
ElSimp_handle(el, event, st) ==
    IF IsPress(event) THEN ElSimp_handle_key_press(el, event.code, st)
    ELSE HandleDefault

\* ElGroup::handle_roll of SkillsEl, RollHistory and Dice
ElGroup_handle_roll(el, st, selected) ==
    CASE el.kind = "SkillsEl" ->
            IF selected < st.skills THEN Open("RollModal", selected)
            ELSE HandleDefault
      [] el.kind = "RollHistory" ->
            LET index == SatSub(st.rolls, selected + 1)
            IN  IF index < st.rolls THEN Open("RollModal", index)
                ELSE HandleDefault
      [] OTHER ->
            IF selected < Len(DICE) THEN Open("RollModal", DICE[selected + 1])
            ELSE Open("RollEditorModal", 0)

\* ElGroup::handle_select of SkillsEl, RollHistory and Dice
ElGroup_handle_select(el, st, selected) ==
    IF el.kind = "SkillsEl"
    THEN IF selected < st.skills THEN Open("SkillModal", selected)
         ELSE HandleDefault
    ELSE ElGroup_handle_roll(el, st, selected)

\* ElGroup::handle_key_press
ElGroup_handle_key_press(el, code, st, selected) ==
    CASE code = "Enter" -> ElGroup_handle_select(el, st, selected)
      [] code = "r" -> ElGroup_handle_roll(el, st, selected)
      [] OTHER -> HandleDefault

\* ElGroup::handle
ElGroup_handle(el, event, st, selected) ==
    IF IsPress(event) THEN ElGroup_handle_key_press(el, event.code, st, selected)
    ELSE HandleDefault

\* What a dispatch did: the element whose handler ran (column index, element
\* index and child index) and the result handed back.
NotDelivered ==
    [called |-> FALSE, col |-> 0, idx |-> 0, child |-> 0, result |-> HandleDefault]

\* handing the group the row in the column in place of the child index
Column_handle_column_row(column, event, st, selected) ==
    LET got == get_element(column, selected, st)
    IN  IF got.some
        THEN [called |-> TRUE, col |-> 0, idx |-> got.idx,
              child |-> selected.row,
              result |-> IF IsGroup(column[got.idx])
                         THEN ElGroup_handle(column[got.idx], event, st,
                                             selected.row)
                         ELSE ElSimp_handle(column[got.idx], event, st)]
        ELSE NotDelivered

\* Column::handle
Column_handle(column, event, st, selected) ==
    LET got == get_element(column, selected, st)
    IN  IF got.some
        THEN [called |-> TRUE, col |-> 0, idx |-> got.idx,
              child |-> got.child_index,
              result |-> IF IsGroup(column[got.idx])
                         THEN ElGroup_handle(column[got.idx], event, st,
                                             got.child_index)
                         ELSE ElSimp_handle(column[got.idx], event, st)]
        ELSE NotDelivered

\* Layout::handle
Layout_handle(cols, event, st, at) ==
    IF at.col < Len(cols)
    THEN [Column_handle(cols[at.col + 1], event, st, PosOf(at))
             EXCEPT !.col = at.col]
    ELSE NotDelivered

\* the scene's handle_key_press answering every key press, whatever the
\* element returned
Scene_handle_key_press_first(cols, event, st, selected, key_result) ==
    LET el_result == Layout_handle(cols, event, st, selected)
    IN  IF IsPress(event)
        THEN [element |-> el_result, key_press |-> TRUE, result |-> key_result]
        ELSE [element |-> el_result, key_press |-> FALSE,
              result |-> el_result.result]

\* Scene::handle, the default implementation; key_result is what the scene's
\* handle_key_press returns.
Scene_handle(cols, event, st, selected, key_result) ==
    LET el_result == Layout_handle(cols, event, st, selected)
    IN  IF el_result.result # HandleDefault
        THEN [element |-> el_result, key_press |-> FALSE,
              result |-> el_result.result]
        ELSE IF IsPress(event)
        THEN [element |-> el_result, key_press |-> TRUE, result |-> key_result]
        ELSE [element |-> el_result, key_press |-> FALSE,
              result |-> HandleDefault]

-----------------------------------------------------------------------------
(* Rendering: which element each render call is told is selected.          *)

Dims(width, height) == [x |-> width, y |-> height]

\* LayoutRenderMode
FullScreen == [kind |-> "FullScreen"]
Modal(dimensions, selection) ==
    [kind |-> "Modal", dimensions |-> dimensions, selection |-> selection]

\* the box laid out from the top-left corner of the area
centre_in_top_left(r, dimensions) ==
    LET col == SplitV(r, <<dimensions.y, Fill(1)>>)
        row == SplitH(col[1], <<dimensions.x, Fill(1)>>)
    IN  row[1]

\* centre_in
centre_in(r, dimensions) ==
    LET col == SplitV(r, <<Fill(1), dimensions.y, Fill(1)>>)
        row == SplitH(col[2], <<Fill(1), dimensions.x, Fill(1)>>)
    IN  row[2]

\* Rect::inner(Margin::new(h, v))
inner(r, h, v) ==
    IF r.width < 2 * h \/ r.height < 2 * v THEN Rect(0, 0, 0, 0)
    ELSE Rect(r.x + h, r.y + v, r.width - 2 * h, r.height - 2 * v)

\* usize::wrapping_sub
wrapping_sub(a, b) == IF a >= b THEN a - b ELSE USIZE - (b - a)

\* Option<ColPos>
None == [some |-> FALSE, row |-> 0, row_col |-> 0]
Some(cp) == [some |-> TRUE, row |-> cp.row, row_col |-> cp.row_col]

\* What an element is told by render: selected: bool for a Simple element,
\* selected: Option<usize> for a group.
Unselected == [selected |-> FALSE, child |-> 0]
Selected(child) == [selected |-> TRUE, child |-> child]

\* Column::render, the loop from element i on with the running row
RECURSIVE RenderFrom(_, _, _, _, _)
RenderFrom(column, st, selected, i, row) ==
    IF i > Len(column) THEN <<>>
    ELSE LET element == column[i]
             row_count == El_row_count(element, st)
             told == IF ~IsGroup(element)
                     THEN IF row = 0 THEN Selected(0) ELSE Unselected
                     ELSE IF direction(element) = "Vertical"
                     THEN IF row < row_count THEN Selected(row) ELSE Unselected
                     ELSE IF row = 0 /\ selected.some
                     THEN Selected(selected.row_col)
                     ELSE Unselected
         IN  <<told>> \o RenderFrom(column, st, selected, i + 1,
                                    wrapping_sub(row, row_count))

\* the loop with a saturating subtraction in place of the wrapping one
RECURSIVE RenderFromSaturating(_, _, _, _, _)
RenderFromSaturating(column, st, selected, i, row) ==
    IF i > Len(column) THEN <<>>
    ELSE LET element == column[i]
             row_count == El_row_count(element, st)
             told == IF ~IsGroup(element)
                     THEN IF row = 0 THEN Selected(0) ELSE Unselected
                     ELSE IF direction(element) = "Vertical"
                     THEN IF row < row_count THEN Selected(row) ELSE Unselected
                     ELSE IF row = 0 /\ selected.some
                     THEN Selected(selected.row_col)
                     ELSE Unselected
         IN  <<told>> \o RenderFromSaturating(column, st, selected, i + 1,
                                              SatSub(row, row_count))

Column_render_saturating(column, st, selected) ==
    RenderFromSaturating(column, st, selected, 1,
                         IF selected.some THEN selected.row ELSE USIZE - 1)

\* Column::render
Column_render(column, st, selected) ==
    RenderFrom(column, st, selected, 1,
               IF selected.some THEN selected.row ELSE USIZE - 1)

\* The areas render draws in: those of iter_layout over r for the columns
\* and those of each column's iter_layout over its area for its elements.
Drawn(cols, st, r) ==
    LET areas == Layout_iter_layout(cols, st, r)
    IN  [columns |-> areas,
         elements |-> [i \in 1..Len(cols) |->
                          Column_iter_layout(cols[i], st, areas[i])]]

\* showing the selection whatever the mode says
Layout_render_always_selecting(cols, st, selected, md, frame) ==
    LET r == IF md.kind = "FullScreen" THEN frame
             ELSE inner(centre_in(frame, md.dimensions), 1, 1)
    IN  [area |-> r,
         drawn |-> Drawn(cols, st, r),
         told |-> [i \in 1..Len(cols) |->
                      Column_render(cols[i], st,
                                    IF selected.col = i - 1
                                    THEN Some(PosOf(selected)) ELSE None)]]

\* the bordered rectangle of the modal returned in place of its interior
Layout_render_outer_area(cols, st, selected, md, frame) ==
    LET selection == IF md.kind = "FullScreen" THEN TRUE ELSE md.selection
        r == IF md.kind = "FullScreen" THEN frame
             ELSE inner(centre_in(frame, md.dimensions), 1, 1)
    IN  [area |-> IF md.kind = "FullScreen" THEN frame
                  ELSE centre_in(frame, md.dimensions),
         drawn |-> Drawn(cols, st, r),
         told |-> [i \in 1..Len(cols) |->
                      Column_render(cols[i], st,
                                    IF selection /\ selected.col = i - 1
                                    THEN Some(PosOf(selected)) ELSE None)]]

\* Layout::render: the area returned, the areas the columns and their
\* elements were drawn in, and what every element was told
Layout_render(cols, st, selected, md, frame) ==
    LET selection == IF md.kind = "FullScreen" THEN TRUE ELSE md.selection
        r == IF md.kind = "FullScreen" THEN frame
             ELSE inner(centre_in(frame, md.dimensions), 1, 1)
    IN  [area |-> r,
         drawn |-> Drawn(cols, st, r),
         told |-> [i \in 1..Len(cols) |->
                      Column_render(cols[i], st,
                                    IF selection /\ selected.col = i - 1
                                    THEN Some(PosOf(selected)) ELSE None)]]

-----------------------------------------------------------------------------
(* The state machine: a scene builds its layout, then navigates it while   *)
(* the sheet state changes underneath.                                     *)

Areas == {Rect(0, 0, 168, 24)}
SimpleEls == {Simple(14, 6)}
Groups == {SkillsEl, RollHistory(TableMaxRolls), Dice}

NoLast == [nav |-> "None", from |-> Default]
NoOut == [op |-> "None"]

ElCount == SumSeq([i \in 1..Len(columns) |-> Len(columns[i])])

Init ==
    /\ columns = << <<>> >>
    /\ built = FALSE
    /\ state = [skills |-> MaxSkills, rolls |-> 0]
    /\ area \in Areas
    /\ pos = Default
    /\ last = NoLast
    /\ panicked = FALSE
    /\ mode = FullScreen
    /\ out = NoOut
    /\ OthersNotConstructed

\* push onto the last column (add_el and add_group)
PushLast(el) ==
    columns' = [columns EXCEPT ![Len(columns)] = Append(@, el)]

\* Layout::add_el
add_el(el) ==
    /\ ~built
    /\ ElCount < MaxEls
    /\ PushLast(el)
    /\ UNCHANGED <<built, state, area, pos, last, panicked, mode, out, others>>

\* Layout::add_group
add_group(group) ==
    /\ ~built
    /\ ElCount < MaxEls
    /\ PushLast(group)
    /\ UNCHANGED <<built, state, area, pos, last, panicked, mode, out, others>>

\* Layout::add_column
add_column ==
    /\ ~built
    /\ Len(columns) < MaxCols
    /\ columns' = Append(columns, <<>>)
    /\ UNCHANGED <<built, state, area, pos, last, panicked, mode, out, others>>

\* The scene takes ownership of the finished layout.
Finish ==
    /\ ~built
    /\ built' = TRUE
    /\ UNCHANGED <<columns, state, area, pos, last, panicked, mode, out, others>>

\* The scene forwards a navigation key: pos = layout.navigate(area, state, pos, nav).
\* In a build with overflow checks the u16 underflow of Layout::left panics;
\* without them the value wraps.
Navigate(nav) ==
    /\ built
    /\ ~panicked
    /\ last' = [nav |-> nav, from |-> pos]
    /\ \/ /\ pos' = navigate(columns, area, state, pos, nav)
          /\ UNCHANGED panicked
       \/ /\ nav = "Left"
          /\ LeftUnderflows(columns, pos, state, area)
          /\ panicked' = TRUE
          /\ UNCHANGED pos
    /\ UNCHANGED <<columns, built, state, area, mode, out, others>>

\* A roll is pushed onto state.rolls (at most cap rolls are modelled).
PushRoll(cap) ==
    /\ built
    /\ ~panicked
    /\ state.rolls < cap
    /\ state' = [state EXCEPT !.rolls = @ + 1]
    /\ last' = NoLast
    /\ UNCHANGED <<columns, built, area, pos, panicked, mode, out, others>>

Next ==
    \/ \E el \in SimpleEls : add_el(el)
    \/ \E g \in Groups : add_group(g)
    \/ add_column
    \/ Finish
    \/ \E nav \in Navigation : Navigate(nav)
    \/ PushRoll(MaxRolls)

Spec == Init /\ [][Next]_vars

-----------------------------------------------------------------------------
(* The layouts of the unit tests and of a sheet-like scene, already built. *)

\* test_navigate: three columns of fixed elements, 48 wide and 64 tall
TestNavigateLayout ==
    << <<Simple(16, 64)>>,
       <<Simple(16, 16), Simple(16, 32), Simple(16, 16)>>,
       <<Simple(16, 48), Simple(16, 16)>> >>

TestNavigateAreas == {Rect(x, y, 16 * 3, 64) : x \in {0, 1, 128}, y \in {0, 7, 128}}

\* test_navigate_table: one column holding a RollHistory
TableLayout == << <<RollHistory(TableMaxRolls)>> >>
TableAreas == {Rect(0, 0, 32, 64)}

\* a fixed element beside a roll history with an element below it
HistoryLayout ==
    << <<Simple(14, 6)>>, <<RollHistory(TableMaxRolls), Simple(14, 6)>> >>

\* Layout::new() rendered into a terminal without cells
FreshLayout == << <<>> >>
EmptyAreas == {Rect(0, 0, 0, 0)}

Scenes ==
    {[columns |-> TestNavigateLayout, areas |-> TestNavigateAreas],
     [columns |-> TableLayout, areas |-> TableAreas],
     [columns |-> HistoryLayout, areas |-> Areas],
     [columns |-> FreshLayout, areas |-> EmptyAreas]}

InitScenes ==
    /\ \E sc \in Scenes : columns = sc.columns /\ area \in sc.areas
    /\ built = TRUE
    /\ state = [skills |-> 0, rolls |-> 0]
    /\ pos = Default
    /\ last = NoLast
    /\ panicked = FALSE
    /\ mode = FullScreen
    /\ out = NoOut
    /\ OthersNotConstructed

NextScenes ==
    \/ \E nav \in Navigation : Navigate(nav)
    \/ PushRoll(TableRolls)

SpecScenes == InitScenes /\ [][NextScenes]_vars

-----------------------------------------------------------------------------
(* The event path: a built layout receives events and is rendered, one     *)
(* call at a time, with positions the caller holds (stale ones included).  *)

EventLayouts ==
    {<< <<StatEl, SkillsEl, Dice>>, <<RollHistory(TableMaxRolls), Simple(14, 6)>> >>,
     << <<RollHistory(TableMaxRolls), StatEl>>, <<>> >>,
     << <<Dice, SkillsEl>> >>}

ModalDims == Dims(Length(10), Length(4))
KeyResults == {HandleDefault, Consume, Close, Open("SpellbookScene", 0)}

\* Positions a caller may hold: every column index up to one past the last,
\* rows up to one past the last, row_col up to one past the last die.
HeldPositions ==
    {ElPos(c, r, rc) :
        c \in 0..Len(columns),
        r \in 0..(1 + MaxSkills + 1 + 1),
        rc \in {0, 1, DiceLen, DiceLen + 1}}

InitEvents ==
    /\ columns \in EventLayouts
    /\ built = TRUE
    /\ state \in [skills : {0, MaxSkills}, rolls : {0, MaxRolls}]
    /\ area \in Areas
    /\ pos = Default
    /\ last = NoLast
    /\ panicked = FALSE
    /\ mode = FullScreen
    /\ out = NoOut
    /\ OthersNotConstructed

\* Layout::modal
modal(dimensions, selection) ==
    /\ out = NoOut
    /\ mode = FullScreen
    /\ mode' = Modal(dimensions, selection)
    /\ UNCHANGED <<columns, built, state, area, pos, last, panicked, out, others>>

\* layout.handle(event, state, at)
Handle(event, at) ==
    /\ out = NoOut
    /\ out' = [op |-> "handle", at |-> at, event |-> event,
               ret |-> Layout_handle(columns, event, state, at)]
    /\ UNCHANGED <<columns, built, state, area, pos, last, panicked, mode, others>>

\* layout.render(frame, state, at)
Render(at) ==
    /\ out = NoOut
    /\ out' = [op |-> "render", at |-> at,
               ret |-> Layout_render(columns, state, at, mode, area)]
    /\ UNCHANGED <<columns, built, state, area, pos, last, panicked, mode, others>>

\* scene.handle(event, state, at) of a scene that keeps the default handle
\* and whose handle_key_press returns key_result
SceneHandle(event, at, key_result) ==
    /\ out = NoOut
    /\ out' = [op |-> "scene_handle", at |-> at, event |-> event,
               key_result |-> key_result,
               ret |-> Scene_handle(columns, event, state, at, key_result)]
    /\ UNCHANGED <<columns, built, state, area, pos, last, panicked, mode, others>>

\* The call returns to the event loop.
Return ==
    /\ out # NoOut
    /\ out' = NoOut
    /\ UNCHANGED <<columns, built, state, area, pos, last, panicked, mode, others>>

NextEvents ==
    \/ \E selection \in BOOLEAN : modal(ModalDims, selection)
    \/ \E event \in Events, at \in HeldPositions : Handle(event, at)
    \/ \E at \in HeldPositions : Render(at)
    \/ \E event \in Events, at \in HeldPositions, key_result \in KeyResults :
           SceneHandle(event, at, key_result)
    \/ Return

SpecEvents == InitEvents /\ [][NextEvents]_vars

-----------------------------------------------------------------------------
(* The free functions and Column::width, each applied to inputs drawn from *)
(* bounded sets, one call at a time.                                       *)

\* Areas handed to centre_in: small ones at two origins, the 20x20 area of
\* a modal and the area of test_centre_in.
PureAreas ==
    {Rect(x, y, w, h) : x \in {0, 5}, y \in {0, 5},
                        w \in 0..MaxSide, h \in 0..MaxSide}
        \cup {Rect(0, 0, 20, 20), Rect(5, 5, 5, 5)}

\* Dimensions requested of centre_in.
Requests ==
    {Dims(Length(w), Length(h)) : w \in 0..MaxSide, h \in 0..MaxSide}
        \cup {Dims(Length(10), Length(4)), Dims(Length(1), MaxC(1))}

\* Width constraints of elements: every kind with a small and a large
\* magnitude, Ratios with equal and unequal quotients, and Fill(0).
Magnitudes == {1, MaxMagnitude}
Constraints ==
    {MaxC(n) : n \in Magnitudes} \cup {Length(n) : n \in Magnitudes}
        \cup {MinC(n) : n \in Magnitudes}
        \cup {Percentage(n) : n \in Magnitudes}
        \cup {Ratio(n, d) : n \in Magnitudes, d \in Magnitudes}
        \cup {Fill(n) : n \in Magnitudes \cup {0}}

\* Columns of up to MaxEls + 1 test elements.
RECURSIVE TestColumns(_)
TestColumns(n) ==
    IF n = 0 THEN {<<>>}
    ELSE LET shorter == TestColumns(n - 1)
         IN  shorter \cup {Append(column, TestEl(c, Length(1))) :
                              column \in {s \in shorter : Len(s) = n - 1},
                              c \in Constraints}

InitPure ==
    /\ columns = FreshLayout
    /\ built = TRUE
    /\ state = [skills |-> 0, rolls |-> 0]
    /\ area = Rect(0, 0, 0, 0)
    /\ pos = Default
    /\ last = NoLast
    /\ panicked = FALSE
    /\ mode = FullScreen
    /\ out = NoOut
    /\ OthersNotConstructed

\* centre_in(r, dimensions)
CentreIn(r, dimensions) ==
    /\ out = NoOut
    /\ out' = [op |-> "centre_in", area |-> r, dimensions |-> dimensions,
               ret |-> centre_in(r, dimensions)]
    /\ UNCHANGED <<columns, built, state, area, pos, last, panicked, mode, others>>

\* column.width(state)
Width(column) ==
    /\ out = NoOut
    /\ out' = [op |-> "width", column |-> column,
               ret |-> Column_width(column, state)]
    /\ UNCHANGED <<columns, built, state, area, pos, last, panicked, mode, others>>

\* A call is made only when none is in progress.
NextPure ==
    \/ /\ out = NoOut
       /\ \E r \in PureAreas, dimensions \in Requests : CentreIn(r, dimensions)
    \/ /\ out = NoOut
       /\ \E column \in TestColumns(MaxEls + 1) : Width(column)
    \/ Return

SpecPure == InitPure /\ [][NextPure]_vars

-----------------------------------------------------------------------------
(* Vocabulary of the properties.                                           *)

\* The element a position addresses (NoElement when there is none).
Addressed(cols, p, st) ==
    IF p.col < Len(cols) THEN get_element(cols[p.col + 1], PosOf(p), st)
    ELSE NoElement

AddressedEl(cols, p, st) == cols[p.col + 1][Addressed(cols, p, st).idx]

InHorizontalGroup(cols, p, st) ==
    /\ Addressed(cols, p, st).some
    /\ IsHorizontalGroup(AddressedEl(cols, p, st))

\* The data-model invariants of an ElPos.
Valid(cols, p, st) ==
    /\ p.col < Len(cols)
    /\ p.row < Column_row_count(cols[p.col + 1], st)
    /\ IF InHorizontalGroup(cols, p, st)
       THEN p.row_col < child_count(AddressedEl(cols, p, st), st)
       ELSE p.row_col = 0

\* A navigate call has returned a position.
Returned == built /\ last.nav # "None" /\ ~panicked

Moved(nav) == Returned /\ last.nav = nav /\ Valid(columns, last.from, state)

-----------------------------------------------------------------------------
-----------------------------------------------------------------------------
(* C2.  clamp_selected maps an arbitrary position to one that addresses an *)
(* existing Simple element or an existing child of a group.                *)

MaxRowCount(cols, st) ==
    LET counts == {Column_row_count(cols[i], st) : i \in 1..Len(cols)}
    IN  CHOOSE m \in counts : \A n \in counts : n <= m

\* Arbitrary positions: in range, on the edge and out of range.
Probes(cols, st) ==
    {ElPos(c, r, rc) : c \in 0..(Len(cols) + 1),
                       r \in 0..(MaxRowCount(cols, st) + 1),
                       rc \in {0, 1, DiceLen, DiceLen + 1, DiceLen + 2}}

AddressesChild(cols, p, st) ==
    LET got == Addressed(cols, p, st)
    IN  /\ got.some
        /\ IsGroup(AddressedEl(cols, p, st)) =>
               got.child_index < child_count(AddressedEl(cols, p, st), st)

\* The layout before the first navigation: the formulas below read columns
\* and state only, and every reachable pair of the two occurs in such a
\* state.
Fresh == built /\ last = NoLast /\ pos = Default

-----------------------------------------------------------------------------
(* C3.  From a valid position navigate never wraps: Up on row 0, Down on   *)
(* the last row, Left in column 0 (on the first child of a horizontal      *)
(* group) and Right in the last column (on the last child of a horizontal  *)
(* group) return the position unchanged.                                   *)

LastRow(cols, p, st) == p.row + 1 = Column_row_count(cols[p.col + 1], st)

LastChild(cols, p, st) ==
    InHorizontalGroup(cols, p, st) =>
        p.row_col + 1 = child_count(AddressedEl(cols, p, st), st)

C3_EdgesAreNoOps ==
    /\ Moved("Up") /\ last.from.row = 0 => pos = last.from
    /\ Moved("Down") /\ LastRow(columns, last.from, state) => pos = last.from
    /\ Moved("Left") /\ last.from.col = 0 /\ last.from.row_col = 0 =>
           pos = last.from
    /\ Moved("Right") /\ last.from.col + 1 = Len(columns)
                      /\ LastChild(columns, last.from, state) =>
           pos = last.from

-----------------------------------------------------------------------------
(* C4.  When Left or Right crosses into the adjacent column the column     *)
(* index changes by exactly one, and the resulting row belongs to the      *)
(* element of the destination column whose rectangle vertically contains   *)
(* the y coordinate of the centre of the child selected before.            *)

CrossesLeft(p) == p.row_col = 0 /\ p.col > 0
CrossesRight(cols, p, st) == ~RightWithinGroup(cols, p, st) /\ p.col + 1 < Len(cols)

\* The elements of column c (0-based) whose rectangle contains y and that
\* have rows to select.
ElementsAt(cols, st, r, c, y) ==
    LET col_area == Layout_iter_layout(cols, st, r)[c + 1]
        areas == Column_iter_layout(cols[c + 1], st, col_area)
    IN  {i \in 1..Len(cols[c + 1]) :
            /\ Contains(areas[i], areas[i].x, y)
            /\ El_row_count(cols[c + 1][i], st) >= 1}

LandsLevel(c) ==
    /\ pos.col = c
    /\ \A i \in ElementsAt(columns, state, area, c,
                           CurrentY(columns, last.from, state, Layout_iter_layout(columns, state, area))) :
           /\ Addressed(columns, pos, state).some
           /\ Addressed(columns, pos, state).idx = i

C4_CrossingKeepsLevel ==
    /\ Moved("Left") /\ CrossesLeft(last.from) => LandsLevel(last.from.col - 1)
    /\ Moved("Right") /\ CrossesRight(columns, last.from, state) =>
           LandsLevel(last.from.col + 1)

-----------------------------------------------------------------------------
(* C5.  In the layout of test_navigate (columns of heights {64},           *)
(* {16,32,16}, {48,16} in a 48 x 64 area at any offset) every one of the   *)
(* 24 listed transitions yields the listed position; Right from (0,0)      *)
(* lands on (1,1).                                                         *)

TestNavigateExpected(from, nav) ==
    CASE from = ElPos(0, 0, 0) ->
            IF nav = "Right" THEN ElPos(1, 1, 0) ELSE ElPos(0, 0, 0)
      [] from = ElPos(1, 1, 0) ->
            (CASE nav = "Up" -> ElPos(1, 0, 0)
               [] nav = "Down" -> ElPos(1, 2, 0)
               [] nav = "Left" -> ElPos(0, 0, 0)
               [] OTHER -> ElPos(2, 0, 0))
      [] from = ElPos(1, 0, 0) ->
            (CASE nav = "Up" -> ElPos(1, 0, 0)
               [] nav = "Down" -> ElPos(1, 1, 0)
               [] nav = "Left" -> ElPos(0, 0, 0)
               [] OTHER -> ElPos(2, 0, 0))
      [] from = ElPos(1, 2, 0) ->
            (CASE nav = "Up" -> ElPos(1, 1, 0)
               [] nav = "Down" -> ElPos(1, 2, 0)
               [] nav = "Left" -> ElPos(0, 0, 0)
               [] OTHER -> ElPos(2, 1, 0))
      [] from = ElPos(2, 0, 0) ->
            (CASE nav = "Up" -> ElPos(2, 0, 0)
               [] nav = "Down" -> ElPos(2, 1, 0)
               [] nav = "Left" -> ElPos(1, 1, 0)
               [] OTHER -> ElPos(2, 0, 0))
      [] from = ElPos(2, 1, 0) ->
            (CASE nav = "Up" -> ElPos(2, 0, 0)
               [] nav = "Down" -> ElPos(2, 1, 0)
               [] nav = "Left" -> ElPos(1, 2, 0)
               [] OTHER -> ElPos(2, 1, 0))
      [] OTHER -> ElPos(3, 0, 0)

C5_TestNavigate ==
    Returned /\ columns = TestNavigateLayout =>
        pos = TestNavigateExpected(last.from, last.nav)

\* (2,1) Left -> (1,2) in the area of the test.
C5_Witness ==
    /\ Returned /\ columns = TestNavigateLayout
    /\ area = Rect(128, 128, 48, 64)
    /\ last = [nav |-> "Left", from |-> ElPos(2, 1, 0)]
    /\ pos = ElPos(1, 2, 0)

-----------------------------------------------------------------------------
(* C6.  Round trip between position and coordinate: in every column, for   *)
(* every valid ColPos P, child_at_coordinate at the point child_pos        *)
(* returns for P gives P back (Simple elements, SkillsEl, RollHistory and  *)
(* Dice).                                                                  *)

ValidColPositions(cols, c, st) ==
    {p \in {ElPos(c, r, rc) : r \in 0..MaxRowCount(cols, st), rc \in 0..DiceLen} :
        Valid(cols, p, st)}

RoundTrip(cols, st, r, p) ==
    LET col_area == Layout_iter_layout(cols, st, r)[p.col + 1]
        xy == Column_child_pos(cols[p.col + 1], col_area, st, PosOf(p))
    IN  Column_child_at_coordinate(cols[p.col + 1], col_area, st, xy[1], xy[2])
            = PosOf(p)

C6_RoundTrip ==
    Fresh =>
        \A c \in 0..(Len(columns) - 1) :
            \A p \in ValidColPositions(columns, c, state) :
                RoundTrip(columns, state, area, p)

-----------------------------------------------------------------------------
(* C7.  Inside an N-child horizontal group each Right below the last child *)
(* adds one to row_col and keeps col and row, so N-1 presses from          *)
(* row_col = 0 reach row_col = N-1; a further Right on the last child      *)
(* crosses to the next column.                                             *)
C7_RightThroughGroup ==
    Moved("Right") /\ InHorizontalGroup(columns, last.from, state) =>
        LET N == child_count(AddressedEl(columns, last.from, state), state)
        IN  /\ last.from.row_col < N - 1 =>
                pos = [last.from EXCEPT !.row_col = last.from.row_col + 1]
            /\ last.from.row_col = N - 1 /\ last.from.col + 1 < Len(columns) =>
                pos.col = last.from.col + 1

\* Right on the last child of a group that has a column to its right.
C7_Witness ==
    /\ Moved("Right")
    /\ InHorizontalGroup(columns, last.from, state)
    /\ last.from.row_col + 1
           = child_count(AddressedEl(columns, last.from, state), state)
    /\ last.from.row_col >= 2
    /\ pos.col = last.from.col + 1

-----------------------------------------------------------------------------
(* C8.  test_navigate_table: one column holding a RollHistory, seven rolls *)
(* in the state.  Down presses visit rows 1, 2, ..., 7 in order, an eighth *)
(* Down is a no-op, Up from row 7 returns to row 6; Up, Left and Right at  *)
(* the start and Left and Right at the end leave the position unchanged.   *)
C8_NavigateTable ==
    Returned /\ columns = TableLayout /\ state.rolls = TableRolls =>
        /\ last.nav = "Down" /\ last.from.row < TableRolls =>
               pos = ElPos(0, last.from.row + 1, 0)
        /\ last.nav = "Down" /\ last.from.row = TableRolls => pos = last.from
        /\ last.nav = "Up" /\ last.from.row = TableRolls =>
               pos = ElPos(0, TableRolls - 1, 0)
        /\ last.nav = "Up" /\ last.from.row = 0 => pos = last.from
        /\ last.nav \in {"Left", "Right"} /\ last.from.row \in {0, TableRolls} =>
               pos = last.from

-----------------------------------------------------------------------------
(* C9.  On a horizontal group, away from the boundary in the direction of  *)
(* travel, Left and Right change row_col by exactly one and leave col and  *)
(* row unchanged.                                                          *)
C9_WithinGroupFrame ==
    /\ Moved("Left") /\ InHorizontalGroup(columns, last.from, state)
                     /\ last.from.row_col > 0 =>
           pos = [last.from EXCEPT !.row_col = last.from.row_col - 1]
    /\ Moved("Right") /\ InHorizontalGroup(columns, last.from, state)
                      /\ last.from.row_col + 1
                             < child_count(AddressedEl(columns, last.from, state), state) =>
           pos = [last.from EXCEPT !.row_col = last.from.row_col + 1]

\* Left from the third child of a group.
C9_Witness ==
    /\ Moved("Left")
    /\ InHorizontalGroup(columns, last.from, state)
    /\ last.from.row_col = 2
    /\ pos = [last.from EXCEPT !.row_col = 1]

-----------------------------------------------------------------------------
(* C10.  From a valid position Up and Down keep col; the row becomes       *)
(* max(row - 1, 0) or min(row + 1, row_count - 1); row_col becomes 0       *)
(* unless the destination row is a horizontal group, where it becomes      *)
(* min(row_col, child_count - 1).                                          *)

ExpectedRowCol(cols, p, st, rc) ==
    IF InHorizontalGroup(cols, p, st)
    THEN Min2(rc, child_count(AddressedEl(cols, p, st), st) - 1)
    ELSE 0

-----------------------------------------------------------------------------
(* C11.  Layout.navigate never panics and never overflows or underflows    *)
(* its u16/usize arithmetic, for any layout (a fresh layout with one empty *)
(* column and layouts with empty columns included), any position and any   *)
(* direction; it always returns a position.                                *)
C11_NavigateNeverPanics == ~panicked

-----------------------------------------------------------------------------
(* C12.  Layout.handle and Layout.render re-clamp the position they are    *)
(* given: for a position with col >= columns.len(), row >= row_count or    *)
(* row_col >= child_count they act as they would on the clamped position   *)
(* -- handle delivers the event to the clamped element with an in-range    *)
(* child index, render highlights it.                                      *)
C12_HandleAndRenderReclamp ==
    /\ out.op = "handle" =>
           out.ret = Layout_handle(columns, out.event, state,
                                   Layout_clamp_selected(columns, out.at, state))
    /\ out.op = "render" =>
           out.ret = Layout_render(columns, state,
                                   Layout_clamp_selected(columns, out.at, state),
                                   mode, area)

-----------------------------------------------------------------------------
(* C13.  Column.child_at_coordinate returns an in-bounds ColPos for every  *)
(* (x, y): the first element whose vertical extent contains y supplies the *)
(* row, and when no element contains y the row returned is the last row    *)
(* of the column (row_count - 1), never a row >= row_count.                *)

\* The y coordinates probed: every line of the area and the one below it.
ProbedYs(r) == r.y..(r.y + r.height)

ContainsY(column, st, r, y) ==
    \E i \in 1..Len(column) :
        LET el_area == Column_iter_layout(column, st, r)[i]
        IN  Contains(el_area, el_area.x, y)

C13_ChildAtCoordinateInBounds ==
    Fresh =>
        \A c \in 1..Len(columns) :
            LET col_area == Layout_iter_layout(columns, state, area)[c]
                row_count == Column_row_count(columns[c], state)
            IN  row_count >= 1 =>
                    \A y \in ProbedYs(col_area) :
                        LET cp == Column_child_at_coordinate(
                                      columns[c], col_area, state, col_area.x, y)
                        IN  /\ cp.row < row_count
                            /\ ~ContainsY(columns[c], state, col_area, y) =>
                                   cp.row = row_count - 1

-----------------------------------------------------------------------------
(* C14.  For SkillsEl, Dice and RollHistory, in every state with           *)
(* child_count >= 1 and at every point (x, y), child_at_pos returns an     *)
(* index strictly below child_count.  Checked at the points of the group's *)
(* own area, border lines included.                                        *)

\* The points probed in a group's area: every line, at both ends and the
\* middle of the line.
ProbedPoints(r) ==
    {<<x, y>> : x \in {r.x, r.x + (r.width \div 2), r.x + SatSub(r.width, 1)},
                y \in r.y..(r.y + SatSub(r.height, 1))}

C14_ChildAtPosBelowChildCount ==
    Fresh =>
        \A c \in 1..Len(columns) :
            \A i \in 1..Len(columns[c]) :
                LET el == columns[c][i]
                    col_area == Layout_iter_layout(columns, state, area)[c]
                    el_area == Column_iter_layout(columns[c], state, col_area)[i]
                IN  IsGroup(el) /\ child_count(el, state) >= 1 =>
                        \A p \in ProbedPoints(el_area) :
                            child_at_pos(el, el_area, state, p[1], p[2])
                                < child_count(el, state)

-----------------------------------------------------------------------------
(* C15.  Layout.handle delivers the event to exactly one element, the one  *)
(* found by scanning the row contributions of the column (Simple 1 row,    *)
(* vertical group child_count rows, horizontal group 1 row), with child    *)
(* index the row offset inside a vertical group or row_col for a           *)
(* horizontal group, and returns that element's result unmodified; when    *)
(* the position addresses no element no handler is called and Default is   *)
(* returned.                                                               *)

RowContribution(el, st) ==
    IF ~IsGroup(el) THEN 1
    ELSE IF direction(el) = "Vertical" THEN child_count(el, st)
    ELSE 1

\* Rows contributed by the elements before element i of the column.
RowsAbove(column, st, i) ==
    SumSeq([j \in 1..(i - 1) |-> RowContribution(column[j], st)])

\* The elements of column at.col whose rows hold at.row.
Holders(cols, at, st) ==
    IF at.col >= Len(cols) THEN {}
    ELSE {i \in 1..Len(cols[at.col + 1]) :
            /\ RowsAbove(cols[at.col + 1], st, i) <= at.row
            /\ at.row < RowsAbove(cols[at.col + 1], st, i)
                          + RowContribution(cols[at.col + 1][i], st)}

ExpectedChild(column, at, st, i) ==
    IF ~IsGroup(column[i]) THEN 0
    ELSE IF direction(column[i]) = "Vertical"
    THEN at.row - RowsAbove(column, st, i)
    ELSE at.row_col

OwnResult(el, event, st, child) ==
    IF IsGroup(el) THEN ElGroup_handle(el, event, st, child)
    ELSE ElSimp_handle(el, event, st)

C15_HandleDispatch ==
    out.op = "handle" =>
        LET held == Holders(columns, out.at, state)
        IN  /\ held = {} =>
                ~out.ret.called /\ out.ret.result = HandleDefault
            /\ \A i \in held :
                LET column == columns[out.at.col + 1]
                    child == ExpectedChild(column, out.at, state, i)
                IN  /\ out.ret.called
                    /\ out.ret.col = out.at.col
                    /\ out.ret.idx = i
                    /\ out.ret.child = child
                    /\ out.ret.result = OwnResult(column[i], out.event, state, child)

\* A key press delivered to a later row of a vertical group that comes
\* after other elements, answered with Open.
C15_Witness ==
    /\ out.op = "handle"
    /\ out.ret.called
    /\ out.ret.idx >= 2
    /\ IsVerticalGroup(columns[out.ret.col + 1][out.ret.idx])
    /\ out.ret.child >= 1
    /\ out.ret.result.tag = "Open"

-----------------------------------------------------------------------------
(* C16.  In one Layout.render call at most one element is told it is       *)
(* selected, it lies in column selected.col, and for a valid position it   *)
(* is exactly the element and child index Layout.handle dispatches to for  *)
(* the same position; every other element is rendered unselected.          *)

\* The elements a render call told they are selected: <<column, element>>.
ToldSelected(told) ==
    UNION {{<<c, i>> : i \in {j \in 1..Len(told[c]) : told[c][j].selected}} :
              c \in 1..Len(columns)}

SelectionShown == mode.kind = "FullScreen" \/ mode.selection

C16_RenderSelectsOne ==
    out.op = "render" =>
        LET sel == ToldSelected(out.ret.told)
            h == Layout_handle(columns, Resize, state, out.at)
        IN  /\ Cardinality(sel) <= 1
            /\ \A ci \in sel : ci[1] = out.at.col + 1
            /\ SelectionShown /\ Valid(columns, out.at, state) =>
                   /\ sel = {<<h.col + 1, h.idx>>}
                   /\ out.ret.told[h.col + 1][h.idx] = Selected(h.child)

\* A valid position on a later element of the second column is rendered.
C16_Witness ==
    /\ out.op = "render"
    /\ SelectionShown
    /\ Valid(columns, out.at, state)
    /\ out.at.col = 1
    /\ ToldSelected(out.ret.told) = {<<2, 2>>}

-----------------------------------------------------------------------------
(* C17.  A Layout in Modal mode created with selection = false never       *)
(* renders an element or group child as selected, whatever the position;   *)
(* with selection = true, or in FullScreen mode, the element a valid       *)
(* position addresses is rendered selected.                                *)
C17_ModalSelectionFlag ==
    out.op = "render" =>
        /\ mode.kind = "Modal" /\ ~mode.selection =>
               ToldSelected(out.ret.told) = {}
        /\ SelectionShown /\ Valid(columns, out.at, state) =>
               out.ret.told[out.at.col + 1]
                           [Addressed(columns, out.at, state).idx].selected

\* A modal without selection is rendered with a valid position on a group
\* child.
C17_Witness ==
    /\ out.op = "render"
    /\ mode.kind = "Modal"
    /\ ~mode.selection
    /\ Valid(columns, out.at, state)
    /\ IsGroup(AddressedEl(columns, out.at, state))
    /\ out.at.row >= 1
    /\ ToldSelected(out.ret.told) = {}

-----------------------------------------------------------------------------
(* centre_in and Column::width.                                            *)

\* Cells of the area left of, right of, above and below the box.
MarginLeft(r, c) == c.x - r.x
MarginRight(r, c) == (r.x + r.width) - (c.x + c.width)
MarginTop(r, c) == c.y - r.y
MarginBottom(r, c) == (r.y + r.height) - (c.y + c.height)

\* C18: centre_in(area, Dims(Length w, Length h)) with w <= area.width and
\* h <= area.height returns a rect of exactly w x h cells inside the area
\* whose left and right margins differ by at most one cell, and its top and
\* bottom margins likewise; Dims(10, 4) in the 20x20 area at the origin
\* gives (5, 8, 10, 4) and a 1x1 request in Rect(5, 5, 5, 5) gives
\* (7, 7, 1, 1).
C18_CentreInCentres ==
    out.op = "centre_in" =>
        LET r == out.area
            d == out.dimensions
            c == out.ret
        IN  /\ (/\ d.x.k = "Length" /\ d.y.k = "Length"
                /\ d.x.n <= r.width /\ d.y.n <= r.height)
                   => /\ c.width = d.x.n /\ c.height = d.y.n
                      /\ MarginLeft(r, c) >= 0 /\ MarginRight(r, c) >= 0
                      /\ MarginTop(r, c) >= 0 /\ MarginBottom(r, c) >= 0
                      /\ MarginLeft(r, c) - MarginRight(r, c) \in -1..1
                      /\ MarginTop(r, c) - MarginBottom(r, c) \in -1..1
            /\ (r = Rect(0, 0, 20, 20) /\ d = Dims(Length(10), Length(4)))
                   => c = Rect(5, 8, 10, 4)
            /\ (r = Rect(5, 5, 5, 5) /\ d.x.n = 1 /\ d.y.n = 1)
                   => c = Rect(7, 7, 1, 1)

\* The modal of the scenario has been centred in the 20x20 area.
C18_Witness ==
    /\ out.op = "centre_in"
    /\ out.area = Rect(0, 0, 20, 20)
    /\ out.dimensions = Dims(Length(10), Length(4))
    /\ out.ret = Rect(5, 8, 10, 4)

\* The order of the kinds: Max > Length > Min > Percentage > Ratio > Fill.
KindRank(c) ==
    CASE c.k = "Max" -> 5
      [] c.k = "Length" -> 4
      [] c.k = "Min" -> 3
      [] c.k = "Percentage" -> 2
      [] c.k = "Ratio" -> 1
      [] OTHER -> 0

\* Order of two magnitudes of one kind (a Ratio's magnitude is its quotient).
MagnitudeOrder(a, b) ==
    IF a.k = "Ratio" THEN Cmp(a.n * b.d, b.n * a.d) ELSE Cmp(a.n, b.n)

\* The total order: the earlier kind wins, then the larger magnitude.
TotalOrder(a, b) ==
    IF KindRank(a) # KindRank(b) THEN Cmp(KindRank(a), KindRank(b))
    ELSE MagnitudeOrder(a, b)

Reverse(o) == IF o = "Less" THEN "Greater" ELSE IF o = "Greater" THEN "Less" ELSE o

\* C19: Column.width(state) is the greatest width constraint among the
\* column's elements under the total order Max > Length > Min > Percentage
\* > Ratio > Fill (an earlier kind beats a later kind whatever the
\* magnitudes, within a kind the larger magnitude wins), Fill(0) for a
\* column with no elements; the comparison is antisymmetric and transitive.
C19_WidthIsGreatest ==
    out.op = "width" =>
        LET n == Len(out.column)
            cs == [i \in 1..n |-> dimensions_x(out.column[i], state)]
        IN  /\ n = 0 => out.ret = Fill(0)
            /\ n > 0 => /\ \E i \in 1..n : cs[i] = out.ret
                        /\ \A i \in 1..n : TotalOrder(out.ret, cs[i]) # "Less"
            /\ \A i, j \in 1..n :
                   /\ compare_constraints(cs[i], cs[j]) = TotalOrder(cs[i], cs[j])
                   /\ compare_constraints(cs[i], cs[j])
                          = Reverse(compare_constraints(cs[j], cs[i]))
            /\ \A i, j, k \in 1..n :
                   (/\ compare_constraints(cs[i], cs[j]) # "Less"
                    /\ compare_constraints(cs[j], cs[k]) # "Less")
                       => /\ compare_constraints(cs[i], cs[k]) # "Less"
                          /\ ("Greater" \in {compare_constraints(cs[i], cs[j]),
                                              compare_constraints(cs[j], cs[k])}
                                 => compare_constraints(cs[i], cs[k]) = "Greater")

\* A Max of small magnitude, between a larger Fill and a larger Length, is
\* the width of a column of three.
C19_Witness ==
    /\ out.op = "width"
    /\ Len(out.column) = 3
    /\ dimensions_x(out.column[1], state) = Fill(2)
    /\ dimensions_x(out.column[2], state) = MaxC(1)
    /\ dimensions_x(out.column[3], state) = Length(2)
    /\ out.ret = MaxC(1)

-----------------------------------------------------------------------------
(* Scene::handle.                                                          *)

-----------------------------------------------------------------------------
(* Rolls as text (src/src/roll.rs).  A text is a sequence of characters, a *)
(* character a string of length 1.  An f64 amount is Infinity or a finite  *)
(* decimal: its whole part and the digits of its fraction without trailing *)
(* zeros, which is what Display prints and what parse reads back for       *)
(* decimals of at most 15 significant digits.                              *)

MaxMods == 2

Digits == <<"0", "1", "2", "3", "4", "5", "6", "7", "8", "9">>

\* char::is_digit(10), char::to_digit(10), char::is_whitespace
is_digit(c) == \E i \in 1..10 : Digits[i] = c
to_digit(c) == (CHOOSE i \in 1..10 : Digits[i] = c) - 1
is_whitespace(c) == c = " "

\* Display of a u32
RECURSIVE u32_to_string(_)
u32_to_string(n) ==
    IF n < 10 THEN <<Digits[n + 1]>>
    ELSE Append(u32_to_string(n \div 10), Digits[(n % 10) + 1])

\* f64 values
Amount(whole, frac) == [inf |-> FALSE, whole |-> whole, frac |-> frac]
Infinity == [inf |-> TRUE, whole |-> 0, frac |-> <<>>]

\* Display of an f64: no exponent, no fraction for a whole number, "inf"
f64_to_string(a) ==
    IF a.inf THEN <<"i", "n", "f">>
    ELSE u32_to_string(a.whole)
            \o (IF a.frac = <<>> THEN <<>> ELSE <<".">> \o a.frac)

\* Value of a run of digits.
RECURSIVE DigitsValue(_)
DigitsValue(ds) ==
    IF ds = <<>> THEN 0
    ELSE DigitsValue(SubSeq(ds, 1, Len(ds) - 1)) * 10 + to_digit(ds[Len(ds)])

RECURSIVE StripTrailingZeros(_)
StripTrailingZeros(ds) ==
    IF ds # <<>> /\ ds[Len(ds)] = "0"
    THEN StripTrailingZeros(SubSeq(ds, 1, Len(ds) - 1))
    ELSE ds

\* str::parse::<f64> of a text of digits with at most one '.': an Err
\* when there is no digit
NoF64 == [ok |-> FALSE, val |-> Amount(0, <<>>)]
parse_f64(num) ==
    LET dots == {i \in 1..Len(num) : num[i] = "."}
        dot == IF dots = {} THEN Len(num) + 1 ELSE CHOOSE i \in dots : TRUE
        whole == SubSeq(num, 1, dot - 1)
        frac == SubSeq(num, dot + 1, Len(num))
    IN  IF whole = <<>> /\ frac = <<>> THEN NoF64
        ELSE [ok |-> TRUE,
              val |-> Amount(DigitsValue(whole), StripTrailingZeros(frac))]

\* RollSuff
SuffNone == [k |-> "None", n |-> 0]
Advantage == [k |-> "Advantage", n |-> 0]
Disadvantage == [k |-> "Disadvantage", n |-> 0]
Keep(n) == [k |-> "Keep", n |-> n]

\* RollSuff::format
RollSuff_format(suff) ==
    CASE suff.k = "None" -> <<>>
      [] suff.k = "Advantage" -> <<"a">>
      [] suff.k = "Disadvantage" -> <<"d">>
      [] OTHER -> <<"k">> \o u32_to_string(suff.n)

\* RollOp::from: "None" when the character is no operator
RollOp_from(c) ==
    CASE c = "+" -> "Add"
      [] c = "-" -> "Sub"
      [] c \in {"*", "x"} -> "Mul"
      [] c = "/" -> "Div"
      [] OTHER -> "None"

\* RollOp::format
RollOp_format(op) ==
    CASE op = "Add" -> "+"
      [] op = "Sub" -> "-"
      [] op = "Mul" -> "*"
      [] OTHER -> "/"

\* RollMod
RollMod(op, amount) == [op |-> op, amount |-> amount]

\* RollMod::format
RollMod_format(m) == <<RollOp_format(m.op), " ">> \o f64_to_string(m.amount)

\* join(" ") of the formatted modifiers
RECURSIVE JoinMods(_)
JoinMods(mods) ==
    IF Len(mods) = 1 THEN RollMod_format(mods[1])
    ELSE RollMod_format(mods[1]) \o <<" ">> \o JoinMods(Tail(mods))

\* Roll
Roll(quantity, size, suff, mods) ==
    [quantity |-> quantity, size |-> size, suff |-> suff, mods |-> mods]

\* Roll::format
Roll_format(roll) ==
    u32_to_string(roll.quantity) \o <<"d">> \o u32_to_string(roll.size)
        \o RollSuff_format(roll.suff)
        \o (IF roll.mods = <<>> THEN <<>> ELSE <<" ">> \o JoinMods(roll.mods))

\* Option<(&[char], T)>
\* The member of a set of one: The({e : x \in {v}}) is e with x bound to
\* the value of v, v worked out once.
The(S) == CHOOSE v \in S : TRUE

NoParse == [some |-> FALSE]
Parsed(rest, val) == [some |-> TRUE, rest |-> rest, val |-> val]

\* take_leading_int: the loop from character i on
RECURSIVE take_leading_int_from(_, _, _, _)
take_leading_int_from(text, i, started, val) ==
    IF i > Len(text) THEN (IF started THEN Parsed(<<>>, val) ELSE NoParse)
    ELSE LET c == text[i]
         IN  IF is_whitespace(c) /\ ~started
             THEN take_leading_int_from(text, i + 1, started, val)
             ELSE IF is_digit(c)
             THEN take_leading_int_from(text, i + 1, TRUE,
                                        val * 10 + to_digit(c))
             ELSE IF started THEN Parsed(SubSeq(text, i, Len(text)), val)
             ELSE NoParse

take_leading_int(text) == take_leading_int_from(text, 1, FALSE, 0)

\* next_char
RECURSIVE next_char(_)
next_char(text) ==
    IF text # <<>> /\ is_whitespace(Head(text)) THEN next_char(Tail(text))
    ELSE IF text # <<>> THEN Parsed(Tail(text), Head(text))
    ELSE NoParse

\* num.parse().ok().map(|v| (text, v))
NumberAt(text, num) ==
    LET v == parse_f64(num)
    IN  IF v.ok THEN Parsed(text, v.val) ELSE NoParse

\* take_leading_number: the loop with the characters gathered in num
RECURSIVE take_leading_number_from(_, _)
take_leading_number_from(text, num) ==
    LET nc == next_char(text)
    IN  IF ~nc.some THEN NumberAt(text, num)
        ELSE IF nc.val = "."
        THEN (IF \A i \in 1..Len(num) : num[i] # "."
              THEN take_leading_number_from(nc.rest, Append(num, "."))
              ELSE NumberAt(text, num))
        ELSE IF is_digit(nc.val)
        THEN take_leading_number_from(nc.rest, Append(num, nc.val))
        ELSE NumberAt(text, num)

take_leading_number(text) == take_leading_number_from(text, <<>>)

\* expect
expect(expected, text) ==
    LET nc == next_char(text)
    IN  IF nc.some /\ nc.val = expected THEN Parsed(nc.rest, expected)
        ELSE NoParse

\* parse_roll_suff_mods: Option<(&[char], RollSuff, Vec<RollMod>)>
SuffMods(rest, suff, mods) ==
    [some |-> TRUE, rest |-> rest, suff |-> suff, mods |-> mods]

RECURSIVE parse_roll_suff_mods(_)
\* the suffix or modifier at the head of the text, then the rest of them
SuffModsThen(text, suff, mods) ==
    The({IF more.some
         THEN SuffMods(more.rest,
                       IF more.suff = SuffNone THEN suff ELSE more.suff,
                       mods \o more.mods)
         ELSE SuffMods(text, suff, mods) :
            more \in {parse_roll_suff_mods(text)}})

parse_roll_suff_mods(text) ==
    LET nc == next_char(text)
    IN  IF ~nc.some THEN NoParse
        ELSE IF nc.val = "a" THEN SuffModsThen(nc.rest, Advantage, <<>>)
        ELSE IF nc.val = "d" THEN SuffModsThen(nc.rest, Disadvantage, <<>>)
        ELSE IF nc.val = "k"
        THEN LET num == take_leading_int(nc.rest)
             IN  IF num.some THEN SuffModsThen(num.rest, Keep(num.val), <<>>)
                 ELSE SuffModsThen(nc.rest, Keep(1), <<>>)
        ELSE IF RollOp_from(nc.val) # "None"
        THEN LET num == take_leading_number(nc.rest)
             IN  IF num.some
                 THEN SuffModsThen(num.rest, SuffNone,
                                   <<RollMod(RollOp_from(nc.val), num.val)>>)
                 ELSE NoParse
        ELSE NoParse

\* Option<Roll>
NoRoll == [some |-> FALSE, roll |-> Roll(0, 0, SuffNone, <<>>)]
SomeRoll(roll) == [some |-> TRUE, roll |-> roll]

\* parse_roll (parse_one_roll on the characters of the text)
parse_roll(text) ==
    The({IF ~quantity.some THEN NoRoll
         ELSE The({IF ~d.some THEN NoRoll
                   ELSE The({IF ~size.some THEN NoRoll
                             ELSE The({IF sm.some
                                       THEN SomeRoll(Roll(quantity.val, size.val,
                                                          sm.suff, sm.mods))
                                       ELSE SomeRoll(Roll(quantity.val, size.val,
                                                          SuffNone, <<>>)) :
                                          sm \in {parse_roll_suff_mods(size.rest)}}) :
                                size \in {take_leading_int(d.rest)}}) :
                      d \in {expect("d", quantity.rest)}}) :
            quantity \in {take_leading_int(text)}})

\* The rolls that are formatted and parsed back.
Quantities == {0, 4, 12}
Sizes == {0, 6, 20}
Suffixes == {SuffNone, Advantage, Disadvantage, Keep(3)}
Amounts ==
    {Amount(3, <<>>), Amount(10, <<"1">>), Amount(0, <<"1", "2", "5">>),
     Infinity}
RollMods == {RollMod(op, amount) : op \in {"Add", "Sub", "Mul", "Div"},
                                   amount \in Amounts}

RECURSIVE ModLists(_)
ModLists(n) ==
    IF n = 0 THEN {<<>>}
    ELSE LET shorter == ModLists(n - 1)
         IN  shorter \cup {Append(mods, m) :
                              mods \in {l \in shorter : Len(l) = n - 1},
                              m \in RollMods}

InitRollText ==
    /\ columns = FreshLayout
    /\ built = TRUE
    /\ state = [skills |-> 0, rolls |-> 0]
    /\ area = Rect(0, 0, 0, 0)
    /\ pos = Default
    /\ last = NoLast
    /\ panicked = FALSE
    /\ mode = FullScreen
    /\ out = NoOut
    /\ OthersNotConstructed

\* parse_roll(roll.format().as_str())
ParseFormatted(roll) ==
    /\ out = NoOut
    /\ out' = [op |-> "parse_roll", roll |-> roll, text |-> Roll_format(roll),
               ret |-> parse_roll(Roll_format(roll))]
    /\ UNCHANGED <<layoutVars, panicked, others>>

NextRollText ==
    \/ /\ out = NoOut
       /\ \E quantity \in Quantities, size \in Sizes, suff \in Suffixes,
             mods \in ModLists(MaxMods) :
             ParseFormatted(Roll(quantity, size, suff, mods))
    \/ Return

SpecRollText == InitRollText /\ [][NextRollText]_vars

\* C21: formatting then parsing a roll is the identity: for every Roll
\* (any quantity and size, any suffix, any list of modifiers with the four
\* operators and non-negative amounts) parse_roll(roll.format()) returns
\* Some(roll) with the same quantity, size, suffix and modifiers in order.
C21_FormatParseRoundTrip ==
    out.op = "parse_roll" => out.ret = SomeRoll(out.roll)

-----------------------------------------------------------------------------
(* EditorState (src/src/editors.rs): handles on a Cell shared through an   *)
(* Rc.  The cells are a heap, a handle is the index of its cell.  The      *)
(* field slot is the single slot the handles are meant to behave as.       *)

MaxValue == 2
MaxClones == 3

EditorValues == (0 - MaxValue)..MaxValue

\* T::default() for i64
DefaultValue == 0

\* EditorState::new: a fresh cell and the handle on it
EditorState_new(initial_value) ==
    [constructed |-> TRUE, cells |-> <<initial_value>>, handles |-> <<1>>,
     slot |-> initial_value]

\* EditorState::clone (derived: Rc::clone, the new handle shares the cell)
EditorState_clone(ed, h) ==
    [ed EXCEPT !.handles = Append(@, ed.handles[h])]

\* Cell::take and Cell::set
Cell_take(cells, c) ==
    [value |-> cells[c], cells |-> [cells EXCEPT ![c] = DefaultValue]]
Cell_set(cells, c, value) == [cells EXCEPT ![c] = value]

\* the value is taken and not put back
EditorState_get_taking(ed, h) ==
    LET taken == Cell_take(ed.cells, ed.handles[h])
    IN  [value |-> taken.value, ed |-> [ed EXCEPT !.cells = taken.cells]]

\* EditorState::get
EditorState_get(ed, h) ==
    LET taken == Cell_take(ed.cells, ed.handles[h])
    IN  [value |-> taken.value,
         ed |-> [ed EXCEPT
                    !.cells = Cell_set(taken.cells, ed.handles[h], taken.value)]]

\* EditorState::set
EditorState_set(ed, h, value) ==
    [ed EXCEPT !.cells = Cell_set(ed.cells, ed.handles[h], value)]

\* The closures handed to update: |s| s - 1 and |s| s + 1
Effects == {"dec", "inc"}
Apply(effect, value) == IF effect = "dec" THEN value - 1 ELSE value + 1

\* EditorState::update
EditorState_update(ed, h, effect) ==
    LET taken == Cell_take(ed.cells, ed.handles[h])
    IN  [ed EXCEPT
            !.cells = Cell_set(taken.cells, ed.handles[h],
                               Apply(effect, taken.value))]

Handles == 1..Len(editor.handles)

InitCell ==
    /\ columns = FreshLayout
    /\ built = TRUE
    /\ state = [skills |-> 0, rolls |-> 0]
    /\ area = Rect(0, 0, 0, 0)
    /\ pos = Default
    /\ last = NoLast
    /\ panicked = FALSE
    /\ mode = FullScreen
    /\ out = NoOut
    /\ roll_scene = NotConstructed
    /\ \E initial_value \in EditorValues : editor = EditorState_new(initial_value)
    /\ app = NotConstructed
    /\ book = NotConstructed

\* handle.clone()
CellClone(h) ==
    /\ out = NoOut
    /\ Len(editor.handles) < MaxClones
    /\ editor' = EditorState_clone(editor, h)
    /\ out' = [op |-> "clone", handle |-> h]
    /\ UNCHANGED <<layoutVars, panicked, roll_scene, app, book>>

\* handle.get()
CellGet(h) ==
    /\ out = NoOut
    /\ editor' = EditorState_get(editor, h).ed
    /\ out' = [op |-> "get", handle |-> h,
               ret |-> EditorState_get(editor, h).value]
    /\ UNCHANGED <<layoutVars, panicked, roll_scene, app, book>>

\* handle.set(value)
CellSet(h, value) ==
    /\ out = NoOut
    /\ editor' = [EditorState_set(editor, h, value) EXCEPT !.slot = value]
    /\ out' = [op |-> "set", handle |-> h, value |-> value]
    /\ UNCHANGED <<layoutVars, panicked, roll_scene, app, book>>

\* handle.update(effect)
CellUpdate(h, effect) ==
    /\ out = NoOut
    /\ Apply(effect, editor.slot) \in EditorValues
    /\ editor' = [EditorState_update(editor, h, effect)
                     EXCEPT !.slot = Apply(effect, editor.slot)]
    /\ out' = [op |-> "update", handle |-> h, effect |-> effect]
    /\ UNCHANGED <<layoutVars, panicked, roll_scene, app, book>>

\* The call returns.
CellReturn ==
    /\ out # NoOut
    /\ out' = NoOut
    /\ UNCHANGED <<layoutVars, panicked, others>>

NextCell ==
    \/ \E h \in Handles : CellClone(h)
    \/ \E h \in Handles : CellGet(h)
    \/ \E h \in Handles, value \in EditorValues : CellSet(h, value)
    \/ \E h \in Handles, effect \in Effects : CellUpdate(h, effect)
    \/ CellReturn

SpecCell == InitCell /\ [][NextCell]_vars

\* C22: EditorState behaves as one shared mutable slot: through any clone,
\* get returns the value of the most recent set (or the effect of the most
\* recent update on the value before it) made through any clone, and get
\* leaves the stored value as it was, so that a second get returns the same.
C22_OneSharedSlot ==
    /\ \A h \in Handles :
          /\ editor.cells[editor.handles[h]] = editor.slot
          /\ EditorState_get(editor, h).value = editor.slot
    /\ out.op = "get" => out.ret = editor.slot

\* A value written through one handle has been read through another.
C22_Witness ==
    /\ out.op = "get"
    /\ out.handle = 2
    /\ out.ret = editor.slot
    /\ editor.slot # DefaultValue
    /\ Len(editor.handles) = MaxClones

-----------------------------------------------------------------------------
(* The rectangle render returns.                                           *)

\* C23: the rectangle returned by Layout.render is the rectangle over which
\* the columns were split in that render (the frame area in FullScreen
\* mode, the border-inset interior of the centred modal rectangle in Modal
\* mode), so navigate, given the returned rectangle and the same state,
\* computes the column and element rectangles that were drawn.
C23_RenderReturnsSplitArea ==
    out.op = "render" =>
        LET areas == Layout_iter_layout(columns, state, out.ret.area)
        IN  /\ out.ret.area =
                  IF mode.kind = "FullScreen" THEN area
                  ELSE inner(centre_in(area, mode.dimensions), 1, 1)
            /\ out.ret.drawn.columns = areas
            /\ \A i \in 1..Len(columns) :
                  out.ret.drawn.elements[i]
                      = Column_iter_layout(columns[i], state, areas[i])

\* A modal was rendered: the rectangle returned is inside the frame and an
\* element was drawn in it.
C23_Witness ==
    /\ out.op = "render"
    /\ mode.kind = "Modal"
    /\ out.ret.area = Rect(80, 11, 8, 2)
    /\ \E i \in 1..Len(columns) :
          /\ columns[i] # <<>>
          /\ out.ret.drawn.elements[i][1].width > 0
          /\ out.ret.drawn.elements[i][1].x >= out.ret.area.x

-----------------------------------------------------------------------------
(* The RollScene of src/src/roll.rs: a line of input, the rows of results  *)
(* and the backlog browsed with Up and Down.                               *)

MaxInput == 3
MaxResults == 2

\* Characters typed into the input.  None of them is an operator, so the
\* rolls parsed from the texts of the model carry no modifier.
Typed == {"0", "1", "d"}

\* crossterm events handed to the scene
KeyCodes ==
    {"Enter", "Up", "Down", "Backspace", "Esc", "h", "l", "q", "r"} \cup Typed
SceneEvents ==
    {Key("Press", code) : code \in KeyCodes}
        \cup {Key("Release", "Enter"), Resize}

\* tui_input: Input::handle_event of the crossterm backend with the cursor
\* at the end of the value.  A pressed character is inserted, Backspace
\* removes the last character and does nothing on an empty value, other
\* keys and other events make no request.
NoRequest == [some |-> FALSE, value |-> FALSE]
Input_handle_event(input, event) ==
    IF ~IsPress(event) THEN [response |-> NoRequest, input |-> input]
    ELSE IF event.code = "Backspace"
    THEN (IF input = <<>> THEN [response |-> NoRequest, input |-> input]
          ELSE [response |-> [some |-> TRUE, value |-> TRUE],
                input |-> SubSeq(input, 1, Len(input) - 1)])
    ELSE IF event.code \in Typed
    THEN [response |-> [some |-> TRUE, value |-> TRUE],
          input |-> Append(input, event.code)]
    ELSE [response |-> NoRequest, input |-> input]

\* RollScene::new
RollScene_new ==
    [constructed |-> TRUE, input |-> <<>>, results |-> <<>>,
     backlog_index |-> USIZE - 1, backlog_fallback |-> <<>>]

\* Sum, maximum and minimum of the results; the n largest summed.
SeqMax(s) == IF s = <<>> THEN 0 ELSE CHOOSE m \in {s[i] : i \in 1..Len(s)} :
                                        \A i \in 1..Len(s) : s[i] <= m
SeqMin(s) == IF s = <<>> THEN 0 ELSE CHOOSE m \in {s[i] : i \in 1..Len(s)} :
                                        \A i \in 1..Len(s) : s[i] >= m
RECURSIVE SumLargest(_, _)
SumLargest(s, n) ==
    IF n = 0 \/ s = <<>> THEN 0
    ELSE LET i == CHOOSE j \in 1..Len(s) : s[j] = SeqMax(s)
         IN  s[i] + SumLargest(SubSeq(s, 1, i - 1) \o SubSeq(s, i + 1, Len(s)),
                               n - 1)

\* Roll::resolve with the dice showing results: the total by suffix, then
\* the modifiers (none in the rolls of the model)
Roll_resolve(roll, results) ==
    [roll |-> roll, results |-> results,
     value |-> CASE roll.suff.k = "None" -> SumSeq(results)
                 [] roll.suff.k = "Advantage" -> SeqMax(results)
                 [] roll.suff.k = "Disadvantage" -> SeqMin(results)
                 [] OTHER -> SumLargest(results,
                                        Min2(roll.suff.n, Len(results)))]

\* What the dice can show: quantity.max(1) values of random_range(1..=size);
\* none when the range is empty, which panics.
RECURSIVE DiceResults(_, _)
DiceResults(n, size) ==
    IF n = 0 THEN {<<>>}
    ELSE {Append(r, v) : r \in DiceResults(n - 1, size), v \in 1..size}

\* RollOutcome::format_results
RECURSIVE format_results(_)
format_results(results) ==
    IF results = <<>> THEN <<>>
    ELSE IF Len(results) = 1 THEN u32_to_string(results[1])
    ELSE u32_to_string(results[1]) \o <<",", " ">> \o format_results(Tail(results))

\* RollOutcome::format_value of a whole value
format_value(value) == u32_to_string(value)

ParseFailure ==
    <<"P", "a", "r", "s", "e", " ", "f", "a", "i", "l", "u", "r", "e">>

\* The row pushed for a text and the dice results.
ResultRow(text, results) ==
    The({IF parsed.some
         THEN The({<<Roll_format(oc.roll), format_results(oc.results),
                     format_value(oc.value)>> :
                      oc \in {Roll_resolve(parsed.roll, results)}})
         ELSE <<ParseFailure, <<>>, <<>>>> :
            parsed \in {parse_roll(text)}})

\* results.get(index).map(|r| r.0.clone()).unwrap_or_default()
BacklogValue(results, index) ==
    IF index < Len(results) THEN results[index + 1][1] ELSE <<>>

\* RollScene::handle; dice is what the dice show if the text is a roll.
\* Returns the scene, the HandleResult and whether the call panicked.
Handled(scene, result) == [scene |-> scene, result |-> result, panics |-> FALSE]

RollScene_handle(scene, event, dice) ==
    IF event.type # "Key" THEN Handled(scene, "Default")
    ELSE IF event.code = "Enter"
    THEN The({IF parsed.some /\ parsed.roll.size = 0
              THEN [scene |-> [scene EXCEPT !.input = <<>>],
                    result |-> "Panic", panics |-> TRUE]
              ELSE Handled([scene EXCEPT
                               !.input = <<>>,
                               !.results =
                                   Append(@, ResultRow(scene.input, dice))],
                           "Consume") :
                 parsed \in {parse_roll(scene.input)}})
    ELSE IF event.code = "Up"
    THEN LET browsing == scene.backlog_index # USIZE - 1
             index == IF browsing
                      THEN Min2(Len(scene.results), scene.backlog_index + 1)
                      ELSE 0
         IN  Handled([scene EXCEPT
                         !.backlog_fallback =
                             IF browsing THEN @ ELSE scene.input,
                         !.backlog_index = index,
                         !.input = BacklogValue(scene.results, index)],
                     "Consume")
    ELSE IF event.code = "Down"
    THEN IF scene.backlog_index = USIZE - 1
         THEN Handled([scene EXCEPT !.input = scene.backlog_fallback],
                      "Consume")
         ELSE LET index == wrapping_sub(scene.backlog_index, 1)
              IN  Handled([scene EXCEPT
                              !.backlog_index = index,
                              !.input = BacklogValue(scene.results, index)],
                          "Consume")
    ELSE IF event.code = "h" THEN Handled(scene, "Default")
    ELSE IF event.code = "l"
    THEN Handled([scene EXCEPT !.results = <<>>], "Consume")
    ELSE IF event.code = "q" THEN Handled(scene, "Default")
    ELSE IF event.code = "r" THEN Handled(scene, "Consume")
    ELSE The({IF i_evt.response.some
              THEN Handled([scene EXCEPT
                               !.input = i_evt.input,
                               !.backlog_index =
                                   IF i_evt.response.value THEN USIZE - 1
                                   ELSE @],
                           "Consume")
              ELSE Handled(scene, "Default") :
                 i_evt \in {Input_handle_event(scene.input, event)}})

\* The dice results a call can see: those of the roll in the input when
\* Enter is pressed on a roll, nothing to draw otherwise.
DiceFor(scene, event) ==
    IF event.type = "Key" /\ event.code = "Enter"
    THEN The({IF parsed.some /\ parsed.roll.size > 0
              THEN DiceResults(Max2(parsed.roll.quantity, 1), parsed.roll.size)
              ELSE {<<>>} :
                 parsed \in {parse_roll(scene.input)}})
    ELSE {<<>>}

InitRoll ==
    /\ columns = FreshLayout
    /\ built = TRUE
    /\ state = [skills |-> 0, rolls |-> 0]
    /\ area = Rect(0, 0, 0, 0)
    /\ pos = Default
    /\ last = NoLast
    /\ panicked = FALSE
    /\ mode = FullScreen
    /\ out = NoOut
    /\ roll_scene = RollScene_new
    /\ editor = NotConstructed
    /\ app = NotConstructed
    /\ book = NotConstructed

\* scene.handle(event).  The input holds at most MaxInput typed characters
\* and the results at most MaxResults rows.
RollHandle(event, dice) ==
    /\ out = NoOut
    /\ ~panicked
    /\ (event.type = "Key" /\ event.code \in Typed)
          => Len(roll_scene.input) < MaxInput
    /\ (event.type = "Key" /\ event.code = "Enter")
          => Len(roll_scene.results) < MaxResults
    /\ \E ret \in {RollScene_handle(roll_scene, event, dice)} :
           /\ roll_scene' = ret.scene
           /\ panicked' = ret.panics
           /\ out' = [op |-> "roll_handle", event |-> event,
                      ret |-> ret.result, before |-> roll_scene,
                      dice |-> dice]
    /\ UNCHANGED <<layoutVars, editor, app, book>>

\* The call returns to the event loop.
RollReturn ==
    /\ out # NoOut
    /\ ~panicked
    /\ out' = NoOut
    /\ UNCHANGED <<layoutVars, panicked, others>>

NextRoll ==
    \/ /\ out = NoOut
       /\ ~panicked
       /\ \E event \in SceneEvents :
             \E dice \in DiceFor(roll_scene, event) : RollHandle(event, dice)
    \/ RollReturn

SpecRoll == InitRoll /\ [][NextRoll]_vars

\* C28: handling Enter for any input text never panics, returns Consume,
\* clears the input and appends exactly one row to results: the formatted
\* roll, its values and total when the text parses as a roll ("1d0"
\* included), the row ("Parse failure", "", "") otherwise.
C28_EnterAppendsOneRow ==
    (out.op = "roll_handle" /\ out.event.type = "Key"
        /\ out.event.code = "Enter")
       => /\ ~panicked
          /\ out.ret = "Consume"
          /\ roll_scene.input = <<>>
          /\ roll_scene.results
                = Append(out.before.results,
                         ResultRow(out.before.input, out.dice))

\* C29: browsing the backlog is reversible: with at least one result and
\* draft text T in the input while not browsing (backlog_index =
\* usize::MAX), Up and then Down restore the input to T and return to the
\* not-browsing state; and after any sequence of Up, Down, edits, Enter and
\* 'l', backlog_index is usize::MAX or at most results.len().
C29_BacklogReversible ==
    roll_scene.constructed =>
        /\ (out = NoOut /\ ~panicked /\ roll_scene.results # <<>>
               /\ roll_scene.backlog_index = USIZE - 1)
              => LET afterUp ==
                         RollScene_handle(roll_scene, Key("Press", "Up"),
                                          <<>>).scene
                     afterDown ==
                         RollScene_handle(afterUp, Key("Press", "Down"),
                                          <<>>).scene
                 IN  /\ afterDown.input = roll_scene.input
                     /\ afterDown.backlog_index = USIZE - 1
        /\ \/ roll_scene.backlog_index = USIZE - 1
           \/ roll_scene.backlog_index <= Len(roll_scene.results)

-----------------------------------------------------------------------------
(* The App of src/src/main.rs: a stack of scenes, the help overlay and the *)
(* run loop.  Its RollScene and its parser are those of main.rs.           *)

\* parse_roll_suff_mods of main.rs: the suffix parsed from the rest of the
\* text replaces the one at its head
RECURSIVE Main_parse_roll_suff_mods(_)
Main_SuffModsThen(text, suff, mods) ==
    The({IF more.some THEN SuffMods(more.rest, more.suff, mods \o more.mods)
         ELSE SuffMods(text, suff, mods) :
            more \in {Main_parse_roll_suff_mods(text)}})

Main_parse_roll_suff_mods(text) ==
    LET nc == next_char(text)
    IN  IF ~nc.some THEN NoParse
        ELSE IF nc.val = "a" THEN Main_SuffModsThen(nc.rest, Advantage, <<>>)
        ELSE IF nc.val = "d"
        THEN Main_SuffModsThen(nc.rest, Disadvantage, <<>>)
        ELSE IF nc.val = "k"
        THEN LET num == take_leading_int(nc.rest)
             IN  IF num.some
                 THEN Main_SuffModsThen(num.rest, Keep(num.val), <<>>)
                 ELSE Main_SuffModsThen(nc.rest, Keep(1), <<>>)
        ELSE IF RollOp_from(nc.val) # "None"
        THEN LET num == take_leading_number(nc.rest)
             IN  IF num.some
                 THEN Main_SuffModsThen(num.rest, SuffNone,
                                        <<RollMod(RollOp_from(nc.val), num.val)>>)
                 ELSE NoParse
        ELSE NoParse

\* parse_roll of main.rs
Main_parse_roll(text) ==
    The({IF ~quantity.some THEN NoRoll
         ELSE The({IF ~d.some THEN NoRoll
                   ELSE The({IF ~size.some THEN NoRoll
                             ELSE The({IF sm.some
                                       THEN SomeRoll(Roll(quantity.val, size.val,
                                                          sm.suff, sm.mods))
                                       ELSE SomeRoll(Roll(quantity.val, size.val,
                                                          SuffNone, <<>>)) :
                                          sm \in {Main_parse_roll_suff_mods(
                                                     size.rest)}}) :
                                size \in {take_leading_int(d.rest)}}) :
                      d \in {expect("d", quantity.rest)}}) :
            quantity \in {take_leading_int(text)}})

\* RollOutcome::format of main.rs: the roll without its suffix, the values
\* and the total, as the three parts of "Roll: ..  Values: ..  Total: .."
Main_RollOutcome_format(oc) ==
    <<u32_to_string(oc.roll.quantity) \o <<"d">> \o u32_to_string(oc.roll.size)
          \o (IF oc.roll.mods = <<>> THEN <<>>
              ELSE <<" ">> \o JoinMods(oc.roll.mods)),
      format_results(oc.results), format_value(oc.value)>>

\* "Parse failure."
Main_ParseFailure == <<Append(ParseFailure, ".")>>

\* The scenes of main.rs
SheetScene == [kind |-> "SheetScene", input |-> <<>>, rolls |-> <<>>]
Main_RollScene_new == [kind |-> "RollScene", input |-> <<>>, rolls |-> <<>>]

\* 'r' passed on to the application in place of being consumed
Main_RollScene_handle_passing_r(scene, event, dice) ==
    IF event.type = "Key" /\ event.code = "l"
    THEN Handled([scene EXCEPT !.rolls = <<>>], "Consume")
    ELSE Handled(scene, "Default")

\* RollScene::handle of main.rs
Main_RollScene_handle(scene, event, dice) ==
    IF event.type # "Key" THEN Handled(scene, "Default")
    ELSE IF event.code = "Enter"
    THEN The({IF parsed.some /\ parsed.roll.size = 0
              THEN [scene |-> [scene EXCEPT !.input = <<>>],
                    result |-> "Panic", panics |-> TRUE]
              ELSE Handled([scene EXCEPT
                               !.input = <<>>,
                               !.rolls =
                                   Append(@, IF parsed.some
                                             THEN Main_RollOutcome_format(
                                                      Roll_resolve(parsed.roll,
                                                                   dice))
                                             ELSE Main_ParseFailure)],
                           "Consume") :
                 parsed \in {Main_parse_roll(scene.input)}})
    ELSE IF event.code = "h" THEN Handled(scene, "Default")
    ELSE IF event.code = "l"
    THEN Handled([scene EXCEPT !.rolls = <<>>], "Consume")
    ELSE IF event.code = "q" THEN Handled(scene, "Default")
    ELSE IF event.code = "r" THEN Handled(scene, "Consume")
    ELSE The({IF i_evt.response.some
              THEN Handled([scene EXCEPT !.input = i_evt.input], "Consume")
              ELSE Handled(scene, "Default") :
                 i_evt \in {Input_handle_event(scene.input, event)}})

\* Scene::handle of the scene: SheetScene keeps the default
Main_Scene_handle(scene, event, dice) ==
    IF scene.kind = "RollScene" THEN Main_RollScene_handle(scene, event, dice)
    ELSE Handled(scene, "Default")

\* App::new
App_new ==
    [constructed |-> TRUE, scenes |-> <<SheetScene>>, show_help |-> FALSE,
     exit |-> "Running"]

\* App::handle_key_press
App_handle_key_press(a, code) ==
    IF code = "h" THEN [a EXCEPT !.show_help = TRUE]
    ELSE IF code = "q"
    THEN (IF a.show_help THEN [a EXCEPT !.show_help = FALSE]
          ELSE [a EXCEPT !.scenes = SubSeq(@, 1, Len(@) - 1)])
    ELSE IF code = "r" THEN [a EXCEPT !.scenes = Append(@, Main_RollScene_new)]
    ELSE a

\* App::handle_events on the event read, then the test of the run loop:
\* the application, the outcome of the scene, whether handle_key_press ran
App_handle_events(a, event, dice) ==
    The({LET top == Len(a.scenes)
             a1 == IF top = 0 THEN a
                   ELSE [a EXCEPT !.scenes[top] = handled.scene]
             key_press == handled.result = "Default" /\ IsPress(event)
         IN  IF handled.panics
             THEN [app |-> [a1 EXCEPT !.exit = "Panic"], outcome |-> "Panic",
                   key_press |-> FALSE]
             ELSE The({[app |-> [a2 EXCEPT
                                    !.exit = IF a2.scenes = <<>> THEN "Ok"
                                             ELSE "Running"],
                        outcome |-> handled.result, key_press |-> key_press] :
                          a2 \in {IF key_press
                                  THEN App_handle_key_press(a1, event.code)
                                  ELSE a1}}) :
            handled \in {IF a.scenes = <<>> THEN Handled(SheetScene, "Consume")
                         ELSE Main_Scene_handle(a.scenes[Len(a.scenes)], event,
                                                dice)}})

AppEvents == SceneEvents \cup {Key("Release", "q"), Key("Release", "r")}

\* The dice all showing 1 and all showing size, the ends of
\* random_range(1..=size).
LowestAndHighest(n, size) == {[i \in 1..n |-> 1], [i \in 1..n |-> size]}

\* What the dice show to the scene on top in the model.
AppDiceFor(a, event) ==
    IF event.type = "Key" /\ event.code = "Enter" /\ a.scenes # <<>>
    THEN The({IF parsed.some /\ parsed.roll.size > 0
              THEN LowestAndHighest(Max2(parsed.roll.quantity, 1),
                                    parsed.roll.size)
              ELSE {<<>>} :
                 parsed \in {Main_parse_roll(a.scenes[Len(a.scenes)].input)}})
    ELSE {<<>>}

Top == app.scenes[Len(app.scenes)]

InitApp ==
    /\ columns = FreshLayout
    /\ built = TRUE
    /\ state = [skills |-> 0, rolls |-> 0]
    /\ area = Rect(0, 0, 0, 0)
    /\ pos = Default
    /\ last = NoLast
    /\ panicked = FALSE
    /\ mode = FullScreen
    /\ out = NoOut
    /\ roll_scene = NotConstructed
    /\ editor = NotConstructed
    /\ app = App_new
    /\ book = NotConstructed

\* One turn of the run loop: an event is read and handled.  The input of a
\* RollScene holds at most MaxInput characters, its rolls at most
\* MaxRolls lines.
AppHandleEvents(event, dice) ==
    /\ out = NoOut
    /\ app.exit = "Running"
    /\ (event.type = "Key" /\ event.code \in Typed)
          => Len(Top.input) < MaxInput
    /\ (event.type = "Key" /\ event.code = "Enter")
          => Len(Top.rolls) < MaxRolls
    /\ \E ret \in {App_handle_events(app, event, dice)} :
           /\ app' = ret.app
           /\ panicked' = (ret.outcome = "Panic")
           /\ out' = [op |-> "handle_events", event |-> event,
                      outcome |-> ret.outcome, key_press |-> ret.key_press,
                      before |-> app]
    /\ UNCHANGED <<layoutVars, roll_scene, editor, book>>

\* The loop comes round.
AppReturn ==
    /\ out # NoOut
    /\ out' = NoOut
    /\ UNCHANGED <<layoutVars, panicked, others>>

NextApp ==
    \/ /\ out = NoOut
       /\ app.exit = "Running"
       /\ \E event \in AppEvents :
             \E dice \in AppDiceFor(app, event) : AppHandleEvents(event, dice)
    \/ AppReturn

SpecApp == InitApp /\ [][NextApp]_vars

\* The kinds of the scenes on the stack, bottom first.
StackOf(a) == [i \in 1..Len(a.scenes) |-> a.scenes[i].kind]

\* C24: after any sequence of input events the scene stack is empty,
\* [SheetScene] or [SheetScene, RollScene]; a RollScene on top consumes
\* 'r', so no second RollScene is pushed and the depth never exceeds 2; a
\* scene that returns Consume keeps the application's key handler from
\* running for that event.
C24_SceneStackShape ==
    app.constructed =>
        /\ StackOf(app) \in {<<>>, <<"SheetScene">>,
                             <<"SheetScene", "RollScene">>}
        /\ out.op = "handle_events" =>
              /\ (StackOf(out.before) = <<"SheetScene", "RollScene">>
                     /\ out.event.type = "Key" /\ out.event.code = "r")
                    => /\ out.outcome = "Consume"
                       /\ StackOf(app) = StackOf(out.before)
              /\ out.outcome = "Consume"
                    => /\ ~out.key_press
                       /\ StackOf(app) = StackOf(out.before)
                       /\ app.show_help = out.before.show_help

\* 'r' was pressed with a RollScene on top and the stack is as it was.
C24_Witness ==
    /\ out.op = "handle_events"
    /\ out.event = Key("Press", "r")
    /\ StackOf(out.before) = <<"SheetScene", "RollScene">>
    /\ out.outcome = "Consume"
    /\ StackOf(app) = <<"SheetScene", "RollScene">>

\* C25: 'q' pressed while the help overlay is shown hides the overlay and
\* leaves the scene stack unchanged; 'q' pressed while it is hidden pops
\* exactly the top scene; the run loop exits exactly when the scene stack
\* becomes empty; no event other than such a 'q' press removes a scene.
C25_QuitAndExit ==
    app.constructed =>
        /\ (app.exit # "Running") <=> (app.scenes = <<>>)
        /\ out.op = "handle_events" =>
              /\ (out.event = Key("Press", "q") /\ out.before.show_help)
                    => /\ ~app.show_help
                       /\ app.scenes = out.before.scenes
              /\ (out.event = Key("Press", "q") /\ ~out.before.show_help)
                    => app.scenes = SubSeq(out.before.scenes, 1,
                                           Len(out.before.scenes) - 1)
              /\ Len(app.scenes) < Len(out.before.scenes)
                    => /\ out.event = Key("Press", "q")
                       /\ ~out.before.show_help

-----------------------------------------------------------------------------
(* IntEditorModal of src/src/editors.rs, as stat_modal opens it: the       *)
(* editor, the modal and the modifier display hold handles on one          *)
(* EditorState; the submit handler writes the score to the sheet.          *)

\* Navigation::from_key_code
Navigation_from_key_code(code) ==
    CASE code \in {"Up", "k"} -> "Up"
      [] code \in {"Down", "j"} -> "Down"
      [] code \in {"Left", "h"} -> "Left"
      [] code \in {"Right", "l"} -> "Right"
      [] OTHER -> "None"

\* The handles of stat_modal: IntEditor.state, IntEditorModal.eds and
\* CellDisplay.shared_state
IntEditorHandle == 1
ModalHandle == 2
CellDisplayHandle == 3

\* IntEditorModal::new inside stat_modal: the score of the sheet is the
\* initial value; net is the Right presses less the Left presses so far
stat_modal(score) ==
    LET editor_state == EditorState_new(score)
        eds == EditorState_clone(editor_state, IntEditorHandle)
    IN  [constructed |-> TRUE,
         eds |-> EditorState_clone(eds, ModalHandle),
         stats |-> score, open |-> TRUE, initial |-> score, net |-> 0,
         submitted |-> <<>>]

\* The handler stat_modal passes: |score, state| state.stats.set_score(stat,
\* score); submitted lists the arguments of the calls made
Handler_call(m, value) ==
    [m EXCEPT !.stats = value, !.submitted = Append(@, value)]

\* What a key press gives: the modal and sheet after it and the result
Pressed(m, result) == [modal |-> m, result |-> result]

\* a modal that commits every change as it is made
IntEditorModal_handle_key_press_committing(m, key) ==
    LET got == EditorState_get(m.eds, ModalHandle)
        nav == Navigation_from_key_code(key)
        moved == EditorState_update(m.eds, ModalHandle,
                                    IF nav = "Left" THEN "dec" ELSE "inc")
    IN  IF key = "Enter"
        THEN Pressed(Handler_call([m EXCEPT !.eds = got.ed], got.value), Close)
        ELSE IF nav \in {"Left", "Right"}
        THEN Pressed(Handler_call([m EXCEPT !.eds = moved],
                                  EditorState_get(moved, ModalHandle).value),
                     Consume)
        ELSE Pressed(m, HandleDefault)

\* IntEditorModal::handle_key_press
IntEditorModal_handle_key_press(m, key) ==
    LET got == EditorState_get(m.eds, ModalHandle)
        nav == Navigation_from_key_code(key)
    IN  IF key = "Enter"
        THEN Pressed(Handler_call([m EXCEPT !.eds = got.ed], got.value), Close)
        ELSE IF nav = "Left"
        THEN Pressed([m EXCEPT
                         !.eds = EditorState_update(m.eds, ModalHandle, "dec")],
                     Consume)
        ELSE IF nav = "Right"
        THEN Pressed([m EXCEPT
                         !.eds = EditorState_update(m.eds, ModalHandle, "inc")],
                     Consume)
        ELSE Pressed(m, HandleDefault)

\* Scene::handle of the modal: IntEditor and CellDisplay keep the default
\* handlers of ElSimp, so every key press reaches handle_key_press
IntEditorModal_handle(m, event) ==
    IF IsPress(event) THEN IntEditorModal_handle_key_press(m, event.code)
    ELSE Pressed(m, HandleDefault)

\* IntEditor::render and CellDisplay::show: each reads the value
IntEditorModal_render(m) ==
    LET shown == EditorState_get(m.eds, IntEditorHandle)
        modifier == EditorState_get(shown.ed, CellDisplayHandle)
    IN  [modal |-> [m EXCEPT !.eds = modifier.ed],
         editor |-> shown.value, display |-> modifier.value]

ModalEvents ==
    {Key("Press", code) :
        code \in {"Enter", "Left", "Right", "Up", "Down", "h", "l", "Esc", "x"}}
        \cup {Key("Release", "Left"), Key("Release", "Enter"), Resize}

\* The value the modal holds.
Edited(m) == EditorState_get(m.eds, ModalHandle).value

InitModal ==
    /\ columns = FreshLayout
    /\ built = TRUE
    /\ state = [skills |-> 0, rolls |-> 0]
    /\ area = Rect(0, 0, 0, 0)
    /\ pos = Default
    /\ last = NoLast
    /\ panicked = FALSE
    /\ mode = FullScreen
    /\ out = NoOut
    /\ roll_scene = NotConstructed
    /\ \E score \in EditorValues : editor = stat_modal(score)
    /\ app = NotConstructed
    /\ book = NotConstructed

\* An event reaches the open modal; Close closes it.  The value stays
\* within EditorValues.
ModalHandleEvent(event) ==
    /\ out = NoOut
    /\ editor.open
    /\ LET nav == IF IsPress(event) THEN Navigation_from_key_code(event.code)
                  ELSE "None"
           ret == IntEditorModal_handle(editor, event)
       IN  /\ nav = "Left" => Edited(editor) - 1 \in EditorValues
           /\ nav = "Right" => Edited(editor) + 1 \in EditorValues
           /\ editor' = [ret.modal EXCEPT
                            !.open = ret.result # Close,
                            !.net = CASE nav = "Left" -> @ - 1
                                      [] nav = "Right" -> @ + 1
                                      [] OTHER -> @]
           /\ out' = [op |-> "modal_handle", event |-> event,
                      result |-> ret.result, before |-> editor]
    /\ UNCHANGED <<layoutVars, panicked, roll_scene, app, book>>

\* A frame is drawn.
ModalRender ==
    /\ out = NoOut
    /\ editor.open
    /\ LET ret == IntEditorModal_render(editor)
       IN  /\ editor' = ret.modal
           /\ out' = [op |-> "modal_render", editor |-> ret.editor,
                      display |-> ret.display, before |-> editor]
    /\ UNCHANGED <<layoutVars, panicked, roll_scene, app, book>>

\* The modal is closed by its owner, no Enter pressed.
ModalDismiss ==
    /\ out = NoOut
    /\ editor.open
    /\ editor' = [editor EXCEPT !.open = FALSE]
    /\ out' = [op |-> "modal_dismiss", before |-> editor]
    /\ UNCHANGED <<layoutVars, panicked, roll_scene, app, book>>

ModalReturn ==
    /\ out # NoOut
    /\ out' = NoOut
    /\ UNCHANGED <<layoutVars, panicked, others>>

NextModal ==
    \/ \E event \in ModalEvents : ModalHandleEvent(event)
    \/ ModalRender
    \/ ModalDismiss
    \/ ModalReturn

SpecModal == InitModal /\ [][NextModal]_vars

\* C30: an IntEditorModal opened with initial value v commits only on
\* Enter: Left and Right each return Consume, change the edited value by -1
\* and +1 and leave the sheet unchanged; Enter calls the submit handler
\* exactly once with v + (Right presses) - (Left presses) and returns Close;
\* any other key returns Default with the edited value and the sheet
\* unchanged, so a modal closed without Enter leaves the sheet unmodified.
C30_CommitOnlyOnEnter ==
    /\ (editor.constructed /\ editor.submitted = <<>>)
          => editor.stats = editor.initial
    /\ (out.op = "modal_handle" /\ IsPress(out.event)) =>
          LET nav == Navigation_from_key_code(out.event.code)
              calls == SubSeq(editor.submitted, Len(out.before.submitted) + 1,
                              Len(editor.submitted))
          IN  CASE out.event.code = "Enter" ->
                      /\ out.result = Close
                      /\ calls = <<out.before.initial + out.before.net>>
                [] nav = "Left" ->
                      /\ out.result = Consume
                      /\ Edited(editor) = Edited(out.before) - 1
                      /\ editor.stats = out.before.stats
                      /\ calls = <<>>
                [] nav = "Right" ->
                      /\ out.result = Consume
                      /\ Edited(editor) = Edited(out.before) + 1
                      /\ editor.stats = out.before.stats
                      /\ calls = <<>>
                [] OTHER ->
                      /\ out.result = HandleDefault
                      /\ Edited(editor) = Edited(out.before)
                      /\ editor.stats = out.before.stats
                      /\ calls = <<>>

\* Enter was pressed after more Right presses than Left presses and the
\* sheet holds the value arrived at.
C30_Witness ==
    /\ out.op = "modal_handle"
    /\ out.event = Key("Press", "Enter")
    /\ out.before.net > 0
    /\ editor.stats = out.before.initial + out.before.net
    /\ editor.submitted = <<editor.stats>>

-----------------------------------------------------------------------------
(* The SpellBook of src/src/spells/mod.rs: an RwLock around the spells and *)
(* the status text, written by the thread load_spells spawns and read by   *)
(* the UI thread.  No thread panics holding the lock, so the lock is never *)
(* poisoned and read() and write() return Ok.                              *)

MaxSpells == 2

\* The names of the spells a cache file or a download can hold.
SpellNames == 1..MaxSpells

\* The status texts; "<n> spells." carries its n
Status(text) == [text |-> text, n |-> 0]
SpellsStatus(n) == [text |-> "spells.", n |-> n]
Poisoned == Status("Poisoned!")

\* The threads
UI == "ui"
LOADER == "loader"

\* RwLock: try_read and read succeed with no writer, try_write and write
\* with no writer and no reader
CanRead(b) == b.writer = "None"
CanWrite(b) == b.writer = "None" /\ b.readers = {}

\* SpellBook::default; pc is where the loader is, loaded what it read,
\* ui what the UI thread is in the middle of; passed and dropped record the
\* statuses the book has shown and the set_status calls that did nothing
SpellBook_default ==
    [constructed |-> TRUE, spells |-> {}, status |-> Status("Loading..."),
     readers |-> {}, writer |-> "None",
     pc |-> "set_reading", writing |-> FALSE, loaded |-> {}, kept |-> {},
     text |-> Status("Retrieved."), ui |-> "None",
     passed |-> {Status("Loading...")}, dropped |-> {}]

\* The set_status calls of populate_spellbook_in_background and
\* save_spells_to_cache: the status each sets and what follows it
SetStatusAt ==
    [set_reading |-> Status("Reading tome..."),
     set_communing |-> Status("Communing..."),
     set_count |-> Status("<n> spells."),
     set_recording |-> Status("Recording findings..."),
     set_error |-> Status("Error: ...")]
AfterSetStatus ==
    [set_reading |-> "load_cache", set_communing |-> "download",
     set_count |-> "save_read", set_recording |-> "write_data",
     set_error |-> "done"]
SetStatusPcs == DOMAIN SetStatusAt

\* The argument of the set_status call at pc
StatusArgument(b) ==
    IF b.pc = "set_count" THEN b.text ELSE SetStatusAt[b.pc]

\* SpellBook::set_status, its try_write: the lock is taken, or the call
\* returns having done nothing
SpellBook_set_status_try_write(b) ==
    IF CanWrite(b) THEN [b EXCEPT !.writer = LOADER, !.writing = TRUE]
    ELSE [b EXCEPT !.pc = AfterSetStatus[b.pc],
                   !.dropped = @ \cup {StatusArgument(b)}]

\* SpellBook::set_status, the assignment under the lock and its release
SpellBook_set_status_assign(b) ==
    [b EXCEPT !.status = StatusArgument(b),
              !.passed = @ \cup {StatusArgument(b)},
              !.writer = "None", !.writing = FALSE,
              !.pc = AfterSetStatus[b.pc]]

\* merge_into_spellbook: the spells of the book whose names are not among
\* the new ones are kept; spells are told apart by name and sorted by it
OldSpellsNotInNewSpells(b) == b.spells \ b.loaded

InitBook ==
    /\ columns = FreshLayout
    /\ built = TRUE
    /\ state = [skills |-> 0, rolls |-> 0]
    /\ area = Rect(0, 0, 0, 0)
    /\ pos = Default
    /\ last = NoLast
    /\ panicked = FALSE
    /\ mode = FullScreen
    /\ out = NoOut
    /\ roll_scene = NotConstructed
    /\ editor = NotConstructed
    /\ app = NotConstructed
    /\ book = SpellBook_default

bookOnly == <<layoutVars, panicked, roll_scene, editor, app>>

\* set_status reaches try_write
LoaderSetStatus ==
    /\ book.pc \in SetStatusPcs
    /\ ~book.writing
    /\ book' = SpellBook_set_status_try_write(book)
    /\ UNCHANGED <<bookOnly, out>>

\* set_status assigns and lets go of the lock
LoaderStatusWritten ==
    /\ book.pc \in SetStatusPcs
    /\ book.writing
    /\ book' = SpellBook_set_status_assign(book)
    /\ UNCHANGED <<bookOnly, out>>

\* load_spells_from_cache returns Ok(spells) or Err
LoaderLoadCache(ok, spells) ==
    /\ book.pc = "load_cache"
    /\ book' = IF ok THEN [book EXCEPT !.pc = "merge_read", !.loaded = spells]
               ELSE [book EXCEPT !.pc = "set_communing"]
    /\ UNCHANGED <<bookOnly, out>>

\* download_spell_data returns Ok(spells) or Err
LoaderDownload(ok, spells) ==
    /\ book.pc = "download"
    /\ book' = IF ok THEN [book EXCEPT !.pc = "merge_read", !.loaded = spells]
               ELSE [book EXCEPT !.pc = "set_error"]
    /\ UNCHANGED <<bookOnly, out>>

\* merge_into_spellbook: read() for the loop over the old spells
LoaderMergeRead ==
    /\ book.pc = "merge_read"
    /\ CanRead(book)
    /\ book' = [book EXCEPT !.readers = @ \cup {LOADER}, !.pc = "merge_loop"]
    /\ UNCHANGED <<bookOnly, out>>

\* the loop is over and the read guard dropped
LoaderMergeCollected ==
    /\ book.pc = "merge_loop"
    /\ book' = [book EXCEPT !.kept = OldSpellsNotInNewSpells(book),
                            !.readers = @ \ {LOADER}, !.pc = "merge_write"]
    /\ UNCHANGED <<bookOnly, out>>

\* merge_into_spellbook: write() waits for the lock
LoaderMergeWrite ==
    /\ book.pc = "merge_write"
    /\ CanWrite(book)
    /\ book' = [book EXCEPT !.writer = LOADER, !.pc = "merge_assign"]
    /\ UNCHANGED <<bookOnly, out>>

\* the spells are assigned and the write guard dropped
LoaderMergeWritten ==
    /\ book.pc = "merge_assign"
    /\ book' = [book EXCEPT !.spells = book.loaded \cup book.kept,
                            !.writer = "None", !.pc = "count_read"]
    /\ UNCHANGED <<bookOnly, out>>

\* read() for the status text
LoaderCountRead ==
    /\ book.pc = "count_read"
    /\ CanRead(book)
    /\ book' = [book EXCEPT !.readers = @ \cup {LOADER}, !.pc = "count"]
    /\ UNCHANGED <<bookOnly, out>>

\* format!("{} spells.", inner.spells.len()) and the guard dropped
LoaderCounted ==
    /\ book.pc = "count"
    /\ book' = [book EXCEPT !.text = SpellsStatus(Cardinality(book.spells)),
                            !.readers = @ \ {LOADER}, !.pc = "set_count"]
    /\ UNCHANGED <<bookOnly, out>>

\* save_spells_to_cache: read(), the guard kept to the end of the block
LoaderSaveRead ==
    /\ book.pc = "save_read"
    /\ CanRead(book)
    /\ book' = [book EXCEPT !.readers = @ \cup {LOADER},
                            !.pc = "set_recording"]
    /\ UNCHANGED <<bookOnly, out>>

\* the cache file is written and the guard dropped
LoaderSaved ==
    /\ book.pc = "write_data"
    /\ book' = [book EXCEPT !.readers = @ \ {LOADER}, !.pc = "done"]
    /\ UNCHANGED <<bookOnly, out>>

\* SpellBook::status, its try_read: the guard is taken or "Poisoned!"
\* returned
UiStatus ==
    /\ book.ui = "None"
    /\ IF CanRead(book)
       THEN /\ book' = [book EXCEPT !.readers = @ \cup {UI}, !.ui = "status"]
            /\ out' = NoOut
       ELSE /\ book' = book
            /\ out' = [op |-> "status", ret |-> Poisoned,
                       pc |-> book.pc]
    /\ UNCHANGED bookOnly

\* SpellBook::len and SpellBook::query_all: read() waits for the lock
UiRead(op) ==
    /\ book.ui = "None"
    /\ CanRead(book)
    /\ book' = [book EXCEPT !.readers = @ \cup {UI}, !.ui = op]
    /\ out' = NoOut
    /\ UNCHANGED bookOnly

\* the UI thread's call returns and its guard is dropped
UiReturn ==
    /\ book.ui # "None"
    /\ book' = [book EXCEPT !.readers = @ \ {UI}, !.ui = "None"]
    /\ out' = [op |-> book.ui,
               ret |-> CASE book.ui = "status" -> book.status
                         [] book.ui = "len" -> Cardinality(book.spells)
                         [] OTHER -> book.spells,
               pc |-> book.pc]
    /\ UNCHANGED bookOnly

Loader ==
    \/ LoaderSetStatus
    \/ LoaderStatusWritten
    \/ \E ok \in BOOLEAN, spells \in SUBSET SpellNames :
          LoaderLoadCache(ok, spells)
    \/ \E ok \in BOOLEAN, spells \in SUBSET SpellNames :
          LoaderDownload(ok, spells)
    \/ LoaderMergeRead
    \/ LoaderMergeCollected
    \/ LoaderMergeWrite
    \/ LoaderMergeWritten
    \/ LoaderCountRead
    \/ LoaderCounted
    \/ LoaderSaveRead
    \/ LoaderSaved

NextBook ==
    \/ Loader
    \/ UiStatus
    \/ \E op \in {"len", "query_all"} : UiRead(op)
    \/ UiReturn

SpecBook == InitBook /\ [][NextBook]_vars

\* The threads are scheduled: the loader takes every step it can take
\* again and again, and a call of the UI thread returns.
SpecBookFair == SpecBook /\ SF_vars(Loader) /\ WF_vars(UiReturn)

\* C26: while a background load started by load_spells runs without
\* panicking, no interleaving of the UI thread's status() calls with the
\* loader's writes makes status() return "Poisoned!".
C26_StatusNeverPoisoned ==
    (book.constructed /\ out.op = "status") => out.ret # Poisoned

\* The loader has finished.
LoaderDone == book.constructed /\ book.pc = "done"

\* C27: every status update of the background loader takes effect: after
\* load_spells, under every interleaving with the UI thread's reads, the
\* status eventually becomes "<n> spells." with n the number of spells in
\* the book, or "Error: ..." when loading failed; it passes through
\* "Recording findings..." while the cache is saved; no set_status call is
\* dropped because the lock is held.
C27_StatusUpdatesTakeEffect ==
    <>(/\ LoaderDone
       /\ book.dropped = {}
       /\ book.passed \cap {SpellsStatus(Cardinality(book.spells)),
                            Status("Error: ...")} # {}
       /\ Status("Error: ...") \notin book.passed
             => Status("Recording findings...") \in book.passed)

====
